---- MODULE Spec2Model ----
(***************************************************************************)
(* Attendance detection and submission of the Moodle client                *)
(* (src/moodle/client.py): the result cache keyed by lesson URL, the       *)
(* login gate, the ordered page heuristics of check_attendance and the     *)
(* payload built by submit_attendance.                                     *)
(*                                                                         *)
(* Strings of the source that are not ASCII are written transliterated:    *)
(*   "otmetitsya"  = U+043E U+0442 U+043C U+0435 U+0442 U+0438 U+0442      *)
(*                   U+044C U+0441 U+044F  (regex alternative, l. 299/319) *)
(*   "prisutstvie" = U+043F U+0440 U+0438 U+0441 U+0443 U+0442 U+0441      *)
(*                   U+0442 U+0432 U+0438 U+0435  (regex alternative,      *)
(*                   l. 333)                                               *)
(***************************************************************************)
EXTENDS Integers, Sequences, FiniteSets, TLC

VARIABLES
    now,               \* time.time(), whole seconds
    ticks,             \* how many times the clock has advanced
    username,          \* MoodleClient.username (None when absent)
    password,          \* MoodleClient.password (None when absent)
    is_logged_in,      \* MoodleClient.is_logged_in
    attendance_cache,  \* MoodleClient.attendance_cache: lesson_url -> entry
    last,              \* the call made by the last step and what it returned
    page,              \* the lesson page handed to the page scan
    scan,              \* what the page scan returned for page
    form_page,         \* the form page handed to submit_attendance
    submit,            \* the payload and outcome of the submission
    submission,        \* the last submit_attendance call and its outcome
    lesson_call,       \* the last check_lesson_attendance call
    store,             \* the lesson store: last_checked, last_marked
    checks,            \* how many lesson checks have been made
    delays,            \* how many times the lesson loop's caller has slept
    holder_pass,       \* the check_user_attendances calls made for a holder
    selection,         \* the lessons of a holder and those picked for a check
    parser,            \* the module whose SimpleScheduleParser is the gate
    csv_file,          \* the timetable file at SimpleScheduleParser.csv_path
    schedule,          \* SimpleScheduleParser.schedule
    is_loaded,         \* SimpleScheduleParser.is_loaded
    loader,            \* the load_schedule call of the start/reload thread
    gate_call,         \* the last is_class_time call of the reading thread
    passes,            \* the running instances of the scheduler's job
    firings,           \* how many times the interval trigger has fired
    sched_event        \* what the scheduler or a pass did last

vars == <<now, ticks, username, password, is_logged_in, attendance_cache,
          last, page, scan, form_page, submit, submission, lesson_call,
          store, checks, delays, holder_pass, selection, parser, csv_file,
          schedule, is_loaded, loader,
          gate_call,
          passes, firings, sched_event>>

clientVars == <<now, ticks, username, password, is_logged_in,
                attendance_cache, last>>
scanVars == <<page, scan>>
submitVars == <<form_page, submit>>
lessonVars ==
    <<submission, lesson_call, store, checks, delays, holder_pass, selection>>
gateVars == <<parser, csv_file, schedule, is_loaded, loader, gate_call>>
schedVars == <<passes, firings, sched_event>>

\* Python's None, and the absence of an attribute or a dict key.
None == "None"

---------------------------------------------------------------------------
(* Bounds of the model.                                                    *)

\* The clock advances at most MaxTicks times.
MaxTicks == 2
\* A lesson page holds at most MaxPageLen elements of interest.
MaxPageLen == 2
\* A form page holds at most MaxInputs input elements.
MaxInputs == 3
\* At most MaxChecks lesson checks are made.
MaxChecks == 2
\* A holder has at most MaxLessons active lessons.
MaxLessons == 3
\* A timetable file holds at most MaxRows rows.
MaxRows == 2
\* load_schedule is called at most MaxLoads times.
MaxLoads == 2
\* The interval trigger of the scheduler fires at most MaxFirings times.
MaxFirings == 10

\* The amounts the clock advances by: entries aged 1 and 2 seconds, 300,
\* 301 and 600 seconds are reached.
ClockSteps == {1, 300}

\* The lesson URLs checked.
LessonUrls == {"lesson1", "lesson2"}

---------------------------------------------------------------------------
(* Results: the dicts check_attendance and submit_attendance return hold   *)
(* 'status' and exactly one other key.                                     *)

Result(status, key, value) == [status |-> status, key |-> key, value |-> value]

NoResult == Result(None, None, None)

AvailableFormUrl(url) == Result("available", "form_url", url)
AvailableFormAction(action) == Result("available", "form_action", action)
AvailableButton == Result("available", "button_found", "True")
NotAvailable ==
    Result("not_available", "message", "No attendance marking option found")
\* Mutant: the failure is raised to the caller.
ErrorRaised(message) == Result("raised", "message", message)

ErrorResult(message) == Result("error", "message", message)

NotLoggedIn == ErrorResult("Not logged in")

---------------------------------------------------------------------------
(* Text matching.  A string of the vocabulary is described by the phrases  *)
(* its lower-cased form contains; re.compile(r'a|b', re.I) searched in it  *)
(* matches when one of the alternatives is among them.                     *)

Phrases(s) ==
    CASE s = "Submit attendance" -> {"submit attendance"}
      [] s = "Mark attendance"   -> {"mark attendance"}
      [] s = "otmetitsya"        -> {"otmetitsya"}
      [] s = "prisutstvie"       -> {"prisutstvie"}
      [] OTHER                   -> {}

ReSearch(alternatives, s) == s # None /\ Phrases(s) \cap alternatives # {}

\* re.compile(r'otmetitsya|submit attendance', re.I), on an input's value
ButtonValueRe(s) == ReSearch({"otmetitsya", "submit attendance"}, s)
\* text="Submit attendance": the tag's string equals it
ExactLinkText(s) == s = "Submit attendance"
\* re.compile(r'otmetitsya|mark attendance|submit attendance', re.I)
LinkTextRe(s) ==
    ReSearch({"otmetitsya", "mark attendance", "submit attendance"}, s)
\* re.compile(r'submit attendance|mark attendance|prisutstvie', re.I)
PageTextRe(s) ==
    ReSearch({"submit attendance", "mark attendance", "prisutstvie"}, s)

\* The link targets of the vocabulary.
AttendanceHref == "/mod/attendance/attendance.php?sessid=5&sesskey=k"
OtherHref == "/mod/forum/view.php?id=7"
Hrefs == {AttendanceHref, OtherHref}

\* 'attendance.php' in href
HasAttendancePhp(href) == href = AttendanceHref

---------------------------------------------------------------------------
(* Lesson pages: the elements of interest of the parsed document, in       *)
(* document order.                                                         *)
(*   input : an <input> with the value attribute `text`                    *)
(*   a     : an <a> holding the text node `text`; `single` says the text   *)
(*           is its only child (so that tag.string is the text); href is   *)
(*           None when the attribute is missing or empty                   *)
(*   text  : a text node with no <a> among its ancestors                   *)
(*   div   : a <div>/<section> whose class matches 'attendance';           *)
(*           has_form says it holds a <form>, whose action attribute is    *)
(*           `action` (None when missing)                                  *)

Element(tag, text, single, href, has_form, action) ==
    [tag |-> tag, text |-> text, single |-> single, href |-> href,
     has_form |-> has_form, action |-> action]

InputValues == {"Submit attendance", "Save"}
LinkTexts == {"Submit attendance", "Mark attendance", "otmetitsya",
              "prisutstvie"}
FreeTexts == {"Mark attendance"}
FormActions == {None, "/mod/attendance/attendance.php"}

Elements ==
    {Element("input", v, TRUE, None, FALSE, None) : v \in InputValues}
    \cup {Element("a", t, s, h, FALSE, None) :
            t \in LinkTexts, s \in BOOLEAN, h \in Hrefs \cup {None}}
    \cup {Element("text", t, TRUE, None, FALSE, None) : t \in FreeTexts}
    \cup {Element("div", None, TRUE, None, FALSE, None)}
    \cup {Element("div", None, TRUE, None, TRUE, a) : a \in FormActions}

Pages == UNION {[1..n -> Elements] : n \in 0..MaxPageLen}

\* soup.find: the first of the indices found (0 when there is none).
First(S) == IF S = {} THEN 0 ELSE CHOOSE i \in S : \A j \in S : i <= j

\* tag.string of an element
TagString(e) == IF e.tag = "a" /\ e.single THEN e.text ELSE None

\* soup.find('input', {'value': re.compile(...)})
IsAttendanceBtn(e) == e.tag = "input" /\ ButtonValueRe(e.text)
AttendanceBtns(p) == {i \in 1..Len(p) : IsAttendanceBtn(p[i])}
\* soup.find_all('a', text="Submit attendance")
IsSubmitAttendanceLink(e) == e.tag = "a" /\ ExactLinkText(TagString(e))
SubmitAttendanceLinks(p) == {i \in 1..Len(p) : IsSubmitAttendanceLink(p[i])}
\* soup.find('a', text=re.compile(...))
IsAttendanceLink(e) == e.tag = "a" /\ LinkTextRe(TagString(e))
AttendanceLinks(p) == {i \in 1..Len(p) : IsAttendanceLink(p[i])}
\* soup.find(text=re.compile(...)): a text node of the document
IsSubmitText(e) == e.tag \in {"a", "text"} /\ PageTextRe(e.text)
SubmitTexts(p) == {i \in 1..Len(p) : IsSubmitText(p[i])}
\* soup.find(['div', 'section'], {'class': re.compile(r'attendance')})
IsAttendanceSection(e) == e.tag = "div"
AttendanceSections(p) == {i \in 1..Len(p) : IsAttendanceSection(p[i])}

\* Option 2: the exact links, in order; the first whose href holds
\* 'attendance.php' gives the result.
Option2(p) ==
    LET hits == {i \in SubmitAttendanceLinks(p) :
                    p[i].href # None /\ HasAttendancePhp(p[i].href)}
    IN  IF hits = {} THEN None ELSE p[First(hits)].href

\* Option 3: the first link whose string matches; its href, if it has one.
Option3(p) ==
    LET i == First(AttendanceLinks(p))
    IN  IF i = 0 THEN None ELSE p[i].href

\* Option 4: the first matching text node, then up to the nearest <a> (or to
\* <body>); the href of that <a>, if it has one.
Option4(p) ==
    LET i == First(SubmitTexts(p))
    IN  IF i = 0 \/ p[i].tag # "a" THEN None ELSE p[i].href

\* Mutant: any attendance-classed region counts, with or without a form.
Option5AnyRegion(p) == AttendanceSections(p) # {}

\* Option 5: the first attendance-classed region; whether it holds a form.
Option5(p) ==
    LET i == First(AttendanceSections(p))
    IN  i # 0 /\ p[i].has_form

Option5Action(p) == p[First(AttendanceSections(p))].action

\* The scan of a fetched page: the result, and the option whose return
\* statement produced it (1: button, 2: exact link, 3: link by pattern,
\* 4: text with parent link, 5: attendance section, 0: nothing found).
Scanned(result, option) == [result |-> result, option |-> option]

ScanPage(p) ==
    LET attendance_btn == AttendanceBtns(p) # {}
    IN  IF ~attendance_btn /\ Option2(p) # None
          THEN Scanned(AvailableFormUrl(Option2(p)), 2)
        ELSE IF ~attendance_btn /\ Option3(p) # None
          THEN Scanned(AvailableFormUrl(Option3(p)), 3)
        ELSE IF Option4(p) # None
          THEN Scanned(AvailableFormUrl(Option4(p)), 4)
        ELSE IF Option5(p)
          THEN Scanned(AvailableFormAction(Option5Action(p)), 5)
        ELSE IF attendance_btn
          THEN Scanned(AvailableButton, 1)
        ELSE Scanned(NotAvailable, 0)

NotScanned == Scanned(NoResult, -1)


---------------------------------------------------------------------------
(* Form pages and the payload submit_attendance builds from them.          *)
(* A form page is the <input> elements of its form, in document order,     *)
(* and whether the text of the page holds one of the confirmation words.   *)
(* An input has a type, a name and a value (None when the attribute is     *)
(* missing or empty) and, for a radio, the text of its label.  <button>    *)
(* elements and inputs outside the form are left out.                      *)

FormInput(type, name, value, label) ==
    [type |-> type, name |-> name, value |-> value, label |-> label]

RadioValues == {"1", "present", "7", "8", "9"}
RadioLabels == {"Absent", "Present", "Late"}

FormInputs ==
    {FormInput("radio", "status", v, l) : v \in RadioValues, l \in RadioLabels}
    \cup {FormInput("hidden", "sesskey", "k", None)}
    \cup {FormInput("submit", "submit", v, None) : v \in {"Save", None}}

FormPage(confirm_text, inputs) ==
    [confirm_text |-> confirm_text, inputs |-> inputs]

FormPages ==
    {FormPage(c, inputs) :
        c \in BOOLEAN,
        inputs \in UNION {[1..n -> FormInputs] : n \in 0..MaxInputs}}

NoFormPage == FormPage(FALSE, <<>>)

\* form_data[k] = v
Put(form_data, k, v) ==
    [n \in DOMAIN form_data \cup {k} |-> IF n = k THEN v ELSE form_data[n]]

\* The inputs that carry name n and a value.
Valued(inputs, n) ==
    {i \in 1..Len(inputs) : inputs[i].name = n /\ inputs[i].value # None}

\* Mutant: the first input of a name gives its value.
CollectInputsFirst(inputs) ==
    [n \in {inputs[i].name : i \in {j \in 1..Len(inputs) :
                inputs[j].name # None /\ inputs[j].value # None}} |->
        inputs[CHOOSE i \in Valued(inputs, n) :
                   \A j \in Valued(inputs, n) : i <= j].value]

\* "for input_tag in form.find_all('input'): if name and value:
\*  form_data[name] = value": a later input of the same name overwrites.
CollectInputs(inputs) ==
    [n \in {inputs[i].name : i \in {j \in 1..Len(inputs) :
                inputs[j].name # None /\ inputs[j].value # None}} |->
        inputs[CHOOSE i \in Valued(inputs, n) :
                   \A j \in Valued(inputs, n) : j <= i].value]

\* On a confirmation page the first submit input, if it has a name, is
\* added with its value ('1' when it has none).
AddConfirmation(form_data, pg) ==
    LET i == First({j \in 1..Len(pg.inputs) : pg.inputs[j].type = "submit"})
    IN  IF pg.confirm_text /\ i # 0 /\ pg.inputs[i].name # None
        THEN Put(form_data, pg.inputs[i].name,
                 IF pg.inputs[i].value = None THEN "1"
                 ELSE pg.inputs[i].value)
        ELSE form_data

\* re.compile(r'status') searched in the name
NameHasStatus(n) == n = "status"
\* re.compile(r'1|present', re.I) searched in the value
ValuePresentRe(v) == v \in {"1", "present"}

\* present_input: the first input whose name holds 'status' and whose value
\* is '1', or else the first radio whose value matches (0: none).
PresentInput(inputs) ==
    LET by_name == First({i \in 1..Len(inputs) :
                            /\ NameHasStatus(inputs[i].name)
                            /\ inputs[i].value = "1"})
        by_value == First({i \in 1..Len(inputs) :
                            /\ inputs[i].type = "radio"
                            /\ ValuePresentRe(inputs[i].value)})
    IN  IF by_name # 0 THEN by_name ELSE by_value

\* "if present_input: ... form_data[name] = present_input.get('value', '1')"
AddPresent(form_data, inputs) ==
    LET i == PresentInput(inputs)
    IN  IF i # 0 /\ inputs[i].name # None
        THEN Put(form_data, inputs[i].name,
                 IF inputs[i].value = None THEN "1" ELSE inputs[i].value)
        ELSE form_data

\* The payload posted for a form page.
FormData(pg) ==
    AddPresent(AddConfirmation(CollectInputs(pg.inputs), pg), pg.inputs)

Payload(built, data) == [built |-> built, data |-> data]

NotSubmitted == Payload(FALSE, [n \in {} |-> None])

\* What the scan can make of a page: the client below draws the fetched
\* page through this set, one representative per outcome of the scan.
ScanResults == {ScanPage(p).result : p \in Pages}

---------------------------------------------------------------------------
(* The client: login, the result cache and check_attendance.               *)

\* self.cache_ttl
cache_ttl == 300

\* What the portal does on a login attempt: the GET of the login page
\* raises; the page has no login form; the form has no token; the POST
\* raises; the POST ends on a URL holding 'loginerrors'; it ends elsewhere
\* with the portal's page; it is answered by an HTTP 500 (the URL is the
\* one posted to: the status of the response is not looked at).
LoginResponses ==
    {"get_raises", "no_form", "no_token", "post_raises", "loginerrors", "ok",
     "post_500"}

LoginReturn(ret, flag, requests) ==
    [ret |-> ret, is_logged_in |-> flag, requests |-> requests]

\* MoodleClient.login: what it returns, the flag it leaves and the requests
\* it sent, from the flag before, the credentials and the portal's answer.
login(flag, user, pass, resp) ==
    IF user = None \/ pass = None THEN LoginReturn(FALSE, flag, 0)
    ELSE IF resp \in {"get_raises", "no_form", "no_token"}
      THEN LoginReturn(FALSE, flag, 1)
    ELSE IF resp = "post_raises" THEN LoginReturn(FALSE, flag, 2)
    ELSE LoginReturn(resp # "loginerrors", resp # "loginerrors", 2)

Auth(ok, flag, calls, requests) ==
    [ok |-> ok, is_logged_in |-> flag, login_calls |-> calls,
     login_requests |-> requests]

\* Mutant: the outcome of login() is not looked at.
EnsureLoggedInUnchecked(flag, user, pass, resp) ==
    IF flag THEN Auth(TRUE, flag, 0, 0)
    ELSE LET r == login(flag, user, pass, resp)
         IN  Auth(TRUE, r.is_logged_in, 1, r.requests)

\* Mutant: login() is called whatever the flag.
EnsureLoggedInAlways(flag, user, pass, resp) ==
    LET r == login(flag, user, pass, resp)
    IN  Auth(r.ret, r.is_logged_in, 1, r.requests)

\* "if not self.is_logged_in: logged_in = self.login()"
EnsureLoggedIn(flag, user, pass, resp) ==
    IF flag THEN Auth(TRUE, flag, 0, 0)
    ELSE LET r == login(flag, user, pass, resp)
         IN  Auth(r.ret, r.is_logged_in, 1, r.requests)

CacheEntry(status, last_checked) ==
    [status |-> status, last_checked |-> last_checked]

EmptyCache == [u \in {} |-> CacheEntry(NoResult, 0)]

\* Mutant: the comparison with the TTL is turned around.
CacheFreshReversed(cache, lesson_url, t) ==
    /\ lesson_url \in DOMAIN cache
    /\ t - cache[lesson_url].last_checked > cache_ttl

\* Mutant: an entry never expires.
CacheFreshForever(cache, lesson_url, t) == lesson_url \in DOMAIN cache

\* "lesson_url in self.attendance_cache and
\*  now - cache_entry['last_checked'] < self.cache_ttl"
CacheFresh(cache, lesson_url, t) ==
    /\ lesson_url \in DOMAIN cache
    /\ t - cache[lesson_url].last_checked < cache_ttl

\* Mutant: the cache is replaced by the new entry alone.
CachePutAlone(cache, lesson_url, result, t) ==
    [u \in {lesson_url} |-> CacheEntry(result, t)]

\* "self.attendance_cache[lesson_url] = {'status': result,
\*                                       'last_checked': now}"
CachePut(cache, lesson_url, result, t) ==
    [u \in DOMAIN cache \cup {lesson_url} |->
        IF u = lesson_url THEN CacheEntry(result, t) ELSE cache[u]]

\* The call a step made: the operation, its argument, what it returned, and
\* the calls of login(), the login requests and the lesson-page requests it
\* issued.
Call(op, url, result, calls, requests, fetches) ==
    [op |-> op, url |-> url, result |-> result, login_calls |-> calls,
     login_requests |-> requests, page_fetches |-> fetches]

\* What a check_attendance call returns and leaves behind.
Checked(result, flag, cache, calls, requests, fetches) ==
    [result |-> result, is_logged_in |-> flag, cache |-> cache,
     login_calls |-> calls, login_requests |-> requests,
     page_fetches |-> fetches]

\* Mutant: an error result is written to the cache as well.
CheckAttendanceCachingErrors(flag, cache, user, pass, lesson_url, t, login_resp, fetch, scanned) ==
    IF CacheFresh(cache, lesson_url, t)
    THEN Checked(cache[lesson_url].status, flag, cache, 0, 0, 0)
    ELSE
      LET auth == EnsureLoggedIn(flag, user, pass, login_resp)
          result ==
              IF ~auth.ok THEN NotLoggedIn
              ELSE IF fetch = "raises"
                THEN ErrorResult("connection error")
              ELSE IF fetch # "200"
                THEN ErrorResult("Failed to load lesson page: 404")
              ELSE scanned
      IN  Checked(result, auth.is_logged_in,
                  CachePut(cache, lesson_url, result, t),
                  auth.login_calls, auth.login_requests,
                  IF auth.ok THEN 1 ELSE 0)

\* MoodleClient.check_attendance(lesson_url) at time t, from the flag, the
\* cache and the credentials of the client and the answers of the portal:
\* to the login (when login() is called), to the GET of the lesson page
\* (fetch) and, when that is 200, the scan of the page (scanned).
check_attendance(flag, cache, user, pass, lesson_url, t, login_resp, fetch, scanned) ==
    IF CacheFresh(cache, lesson_url, t)
    THEN Checked(cache[lesson_url].status, flag, cache, 0, 0, 0)
    ELSE
      LET auth == EnsureLoggedIn(flag, user, pass, login_resp)
          result ==
              IF ~auth.ok THEN NotLoggedIn
              ELSE IF fetch = "raises"
                THEN ErrorResult("connection error")
              ELSE IF fetch # "200"
                THEN ErrorResult("Failed to load lesson page: 404")
              ELSE scanned
      IN  Checked(result, auth.is_logged_in,
                  IF auth.ok /\ fetch = "200"
                  THEN CachePut(cache, lesson_url, result, t)
                  ELSE cache,
                  auth.login_calls, auth.login_requests,
                  IF auth.ok THEN 1 ELSE 0)

ClientInit ==
    /\ now = 0
    /\ ticks = 0
    /\ username \in {None, "student"}
    /\ password \in {None, "secret"}
    /\ is_logged_in = FALSE
    /\ attendance_cache = EmptyCache
    /\ last = Call("init", None, NoResult, 0, 0, 0)

\* time passes
Tick ==
    /\ ticks < MaxTicks
    /\ \E d \in ClockSteps : now' = now + d
    /\ ticks' = ticks + 1
    /\ last' = Call("tick", None, NoResult, 0, 0, 0)
    /\ UNCHANGED <<username, password, is_logged_in, attendance_cache,
                   scanVars, submitVars, lessonVars,
                   gateVars, schedVars>>

\* client.login() (also through validate_credentials)
Login ==
    /\ \E resp \in LoginResponses :
        LET r == login(is_logged_in, username, password, resp)
        IN  /\ is_logged_in' = r.is_logged_in
            /\ last' = Call("login", None,
                            Result(None, "return",
                                   IF r.ret THEN "True" ELSE "False"),
                            1, r.requests, 0)
    /\ UNCHANGED <<now, ticks, username, password, attendance_cache,
                   scanVars, submitVars, lessonVars,
                   gateVars, schedVars>>

\* client.check_attendance(lesson_url), served by the cache
CheckCached(lesson_url) ==
    /\ CacheFresh(attendance_cache, lesson_url, now)
    /\ LET c == check_attendance(is_logged_in, attendance_cache, username,
                                 password, lesson_url, now, "ok", "200",
                                 NoResult)
       IN  /\ is_logged_in' = c.is_logged_in
           /\ attendance_cache' = c.cache
           /\ last' = Call("check_attendance", lesson_url, c.result,
                           c.login_calls, c.login_requests, c.page_fetches)

\* client.check_attendance(lesson_url) past the cache: the login gate, the
\* GET of the lesson page and the scan of the page it answers with
CheckFetched(lesson_url, login_resp, fetch, scanned) ==
    /\ ~CacheFresh(attendance_cache, lesson_url, now)
    /\ LET c == check_attendance(is_logged_in, attendance_cache, username,
                                 password, lesson_url, now, login_resp,
                                 fetch, scanned)
       IN  /\ is_logged_in' = c.is_logged_in
           /\ attendance_cache' = c.cache
           /\ last' = Call("check_attendance", lesson_url, c.result,
                           c.login_calls, c.login_requests, c.page_fetches)

\* The answers of the portal that a call can tell apart: the login answer
\* matters only when login() is called, the page only when the GET
\* answers 200.
CheckAttendance ==
    /\ \E lesson_url \in LessonUrls :
        \/ CheckCached(lesson_url)
        \/ \E login_resp \in
                 IF is_logged_in THEN {"ok"} ELSE LoginResponses :
             \/ \E fetch \in {"raises", "404"} :
                    CheckFetched(lesson_url, login_resp, fetch, NoResult)
             \/ \E scanned \in ScanResults :
                    CheckFetched(lesson_url, login_resp, "200", scanned)
    /\ UNCHANGED <<now, ticks, username, password, scanVars, submitVars,
                   lessonVars, gateVars, schedVars>>

---------------------------------------------------------------------------
(* submit_attendance: the login gate, the GET of the form page, the form   *)
(* lookup with the direct-link shortcut, the payload, the action URL, the  *)
(* POST and the reading of its response.                                   *)
(*                                                                         *)
(* Markers of the source that are not ASCII are written transliterated:    *)
(*   "uspeshno otmechen"   = U+0443 U+0441 U+043F U+0435 U+0448 U+043D     *)
(*                           U+043E U+0020 U+043E U+0442 U+043C U+0435     *)
(*                           U+0447 U+0435 U+043D                          *)
(*   "uspishno vidmicheno" = U+0443 U+0441 U+043F U+0456 U+0448 U+043D     *)
(*                           U+043E U+0020 U+0432 U+0456 U+0434 U+043C     *)
(*                           U+0456 U+0447 U+0435 U+043D U+043E            *)
(*   "otmecheno"           = U+043E U+0442 U+043C U+0435 U+0447 U+0435     *)
(*                           U+043D U+043E                                 *)
(*   "vidmicheno"          = U+0432 U+0456 U+0434 U+043C U+0456 U+0447     *)
(*                           U+0435 U+043D U+043E                          *)
(*   "oshibka"             = U+043E U+0448 U+0438 U+0431 U+043A U+0430     *)
(*   "pomylka"             = U+043F U+043E U+043C U+0438 U+043B U+043A     *)
(*                           U+0430                                        *)

\* config.MOODLE_BASE_URL
MOODLE_BASE_URL == "https://dl.nure.ua"

\* The URLs submit_attendance is called with besides the lesson URLs: a
\* direct link carrying sessid and sesskey, a link carrying sessid alone,
\* and the address of a form.
DirectLink == MOODLE_BASE_URL \o AttendanceHref
SessidLink == "https://dl.nure.ua/mod/attendance/attendance.php?sessid=5"
FormLink == "https://dl.nure.ua/mod/attendance/view.php?id=7"
FormUrls == {DirectLink, SessidLink, FormLink}

\* 'sessid=' in form_url
HasSessid(url) == url \in {DirectLink, SessidLink, AttendanceHref}
\* 'sesskey=' in form_url
HasSesskey(url) == url \in {DirectLink, AttendanceHref}

\* The action attribute of the form found: missing or empty, relative with
\* and without a leading slash, absolute.
ActionAttrs ==
    {None, "/mod/attendance/attendance.php", "attendance.php",
     "https://dl.nure.ua/mod/attendance/attendance.php"}
\* form_action.startswith('http')
StartsWithHttp(a) == a = "https://dl.nure.ua/mod/attendance/attendance.php"
\* form_action.startswith('/')
StartsWithSlash(a) == a = "/mod/attendance/attendance.php"

\* "Get form action URL": the address the payload is posted to.
PostUrl(form_action, form_url) ==
    IF form_action = None THEN form_url
    ELSE IF StartsWithHttp(form_action) THEN form_action
    ELSE IF StartsWithSlash(form_action) THEN MOODLE_BASE_URL \o form_action
    ELSE MOODLE_BASE_URL \o "/" \o form_action

\* success_msgs and error_msgs, in the order they are tried
success_msgs ==
    <<"attendance submitted", "successfully recorded", "uspeshno otmechen",
      "uspishno vidmicheno", "otmecheno", "vidmicheno">>
error_msgs == <<"error", "failed", "oshibka", "pomylka">>

\* The bodies the portal answers a POST with.
PostBodies ==
    {"Attendance submitted", "Uspishno vidmicheno", "Error: failed to save",
     "Attendance submitted with errors", "Ne otmecheno: oshibka",
     "Your choice has been saved", ""}

\* The markers that are substrings of soup.get_text().lower() of a body.
MarkersIn(body) ==
    CASE body = "Attendance submitted" -> {"attendance submitted"}
      [] body = "Uspishno vidmicheno" -> {"uspishno vidmicheno", "vidmicheno"}
      [] body = "Error: failed to save" -> {"error", "failed"}
      [] body = "Attendance submitted with errors" ->
             {"attendance submitted", "error"}
      [] body = "Ne otmecheno: oshibka" -> {"otmecheno", "oshibka"}
      [] OTHER -> {}

\* "for msg in msgs: if msg in page_text": some marker of the list occurs
AnyIn(msgs, body) == \E i \in 1..Len(msgs) : msgs[i] \in MarkersIn(body)

SuccessResult(message) == Result("success", "message", message)

\* Mutant: the error markers are tried before the success markers.
InterpretErrorsFirst(status, body) ==
    IF status # "200"
      THEN ErrorResult("Form submission failed: " \o status)
    ELSE IF AnyIn(error_msgs, body)
      THEN ErrorResult("Form submission error detected")
    ELSE IF AnyIn(success_msgs, body)
      THEN SuccessResult("Attendance marked successfully")
    ELSE SuccessResult("Attendance likely marked (no explicit confirmation)")

\* Mutant: a response without any marker is taken for a failure.
InterpretNeitherAsError(status, body) ==
    IF status # "200"
      THEN ErrorResult("Form submission failed: " \o status)
    ELSE IF AnyIn(success_msgs, body)
      THEN SuccessResult("Attendance marked successfully")
    ELSE ErrorResult("Form submission error detected")

\* The reading of the response to the POST: its status code, then the
\* success markers, then the error markers.
Interpret(status, body) ==
    IF status # "200"
      THEN ErrorResult("Form submission failed: " \o status)
    ELSE IF AnyIn(success_msgs, body)
      THEN SuccessResult("Attendance marked successfully")
    ELSE IF AnyIn(error_msgs, body)
      THEN ErrorResult("Form submission error detected")
    ELSE SuccessResult("Attendance likely marked (no explicit confirmation)")

\* The forms a fetched page can hold: the action attribute and the inputs.
Form(action, pg) == [action |-> action, page |-> pg]

SubmitForms ==
    {Form(None, FormPage(FALSE, <<>>)),
     Form("/mod/attendance/attendance.php",
          FormPage(FALSE, <<FormInput("radio", "status", "1", "Present")>>)),
     Form("attendance.php",
          FormPage(TRUE, <<FormInput("hidden", "sesskey", "k", None),
                           FormInput("submit", "submit", "Save", None)>>)),
     Form("https://dl.nure.ua/mod/attendance/attendance.php",
          FormPage(FALSE, <<FormInput("hidden", "sesskey", "k", None)>>))}

\* What the portal answers during a submit_attendance call: to the GET of
\* the form page ("raises", "404", "200"), whether the page holds a form
\* and which, and to the POST ("raises", "500", "200" with a body; "none"
\* when the call does not get that far).
Answer(get, has_form, form, post, body) ==
    [get |-> get, has_form |-> has_form, form |-> form, post |-> post,
     body |-> body]

NoForm == Form(None, NoFormPage)
NoAnswer == Answer("none", FALSE, NoForm, "none", "")

SubmitAnswers ==
    {Answer(g, FALSE, NoForm, "none", "") : g \in {"raises", "404", "200"}}
    \cup {Answer("200", TRUE, f, s, "") :
             f \in SubmitForms, s \in {"raises", "500"}}
    \cup {Answer("200", TRUE, f, "200", b) :
             f \in SubmitForms, b \in PostBodies}

\* What a submit_attendance call returns and leaves behind: the result,
\* the flag, the login calls and requests, the address it fetched and the
\* address and payload it posted (None, NotSubmitted: no such request).
Submitted(result, auth, fetched, post_url, payload) ==
    [result |-> result, is_logged_in |-> auth.is_logged_in,
     login_calls |-> auth.login_calls,
     login_requests |-> auth.login_requests, fetched |-> fetched,
     post_url |-> post_url, payload |-> payload]

\* MoodleClient.submit_attendance(form_url), from the flag and the
\* credentials of the client and the answers of the portal.
submit_attendance(flag, user, pass, form_url, login_resp, ans) ==
    LET auth == EnsureLoggedIn(flag, user, pass, login_resp)
    IN  IF ~auth.ok
          THEN Submitted(NotLoggedIn, auth, None, None, NotSubmitted)
        ELSE IF ans.get = "raises"
          THEN Submitted(ErrorResult("connection error"), auth, form_url,
                         None, NotSubmitted)
        ELSE IF ans.get # "200"
          THEN Submitted(ErrorResult("Failed to load form: " \o ans.get),
                         auth, form_url, None, NotSubmitted)
        ELSE IF ~ans.has_form
          THEN IF HasSessid(form_url) /\ HasSesskey(form_url)
               THEN Submitted(SuccessResult("Direct attendance link accessed"),
                              auth, form_url, None, NotSubmitted)
               ELSE Submitted(ErrorResult("Attendance form not found"),
                              auth, form_url, None, NotSubmitted)
        ELSE LET payload == Payload(TRUE, FormData(ans.form.page))
                 post_url == PostUrl(ans.form.action, form_url)
             IN  IF ans.post = "raises"
                 THEN Submitted(ErrorResult("connection error"), auth,
                                form_url, post_url, payload)
                 ELSE Submitted(Interpret(ans.post, ans.body), auth,
                                form_url, post_url, payload)

\* MoodleClient.mark_attendance(form_url)
mark_attendance(flag, user, pass, form_url, login_resp, ans) ==
    submit_attendance(flag, user, pass, form_url, login_resp, ans)

\* The submit_attendance call a step made: its argument, the answers of
\* the portal and what it returned.
Submission(called, form_url, ans, s) ==
    [called |-> called, form_url |-> form_url, answer |-> ans,
     result |-> s.result, login_calls |-> s.login_calls,
     fetched |-> s.fetched, post_url |-> s.post_url]

NoSubmission ==
    Submission(FALSE, None, NoAnswer,
               Submitted(NoResult, Auth(FALSE, FALSE, 0, 0), None, None,
                         NotSubmitted))

\* The lesson store (db.models.Lesson, by lesson URL): the times
\* update_lesson_check_time and update_lesson_mark_time wrote, an empty
\* sequence for NULL.
StoreRow(last_checked, last_marked) ==
    [last_checked |-> last_checked, last_marked |-> last_marked]

EmptyStore == [l \in LessonUrls |-> StoreRow(<<>>, <<>>)]

\* The check_lesson_attendance call a step made: the lesson, how
\* update_lesson_check_time ended, what check_attendance returned, the
\* address handed to mark_attendance (None: not called) with what it
\* returned, the notification made and how sending it went ("sent",
\* "raises", or "none" without a notification).
LessonCall(called, lesson_url, db, check, marked_url, mark, notice, delivery) ==
    [called |-> called, lesson_url |-> lesson_url, db |-> db,
     check |-> check, marked_url |-> marked_url, mark |-> mark,
     notice |-> notice, delivery |-> delivery]

NoLessonCall ==
    LessonCall(FALSE, None, "none", NoResult, None, NoResult, None, "none")

\* How sending a notification can go.
Deliveries == {"sent", "raises"}

\* Mutant: the mark time is written whatever mark_attendance returned.
MarkTimeOnAttempt(old, ok, db_mark, delivery, t) ==
    IF db_mark = "ok" THEN <<t>> ELSE old

\* Mutant: a notification that fails takes the mark time back.
MarkTimeRolledBack(old, ok, db_mark, delivery, t) ==
    IF ok /\ db_mark = "ok" /\ delivery = "sent" THEN <<t>> ELSE old

\* last_marked of the lesson after the call: update_lesson_mark_time
\* commits it (line 320) before the notification is made (323-332), and
\* nothing afterwards writes it.
MarkTime(old, ok, db_mark, delivery, t) ==
    IF ok /\ db_mark = "ok" THEN <<t>> ELSE old

\* The check_user_attendances calls made for a holder, one in each pass: how
\* many clients they have built (line 190), where the last call is ("idle":
\* returned or not begun, "lessons": past validate_credentials, line 193),
\* and the cache of the client of the call before, which the client built
\* has replaced.
HolderPass(clients, pc, cache) ==
    [clients |-> clients, pc |-> pc, cache |-> cache]

NoHolderPass == HolderPass(0, "idle", EmptyCache)

\* Strings whose characters matter are sequences of characters.  The
\* subjects of the class in session and the names of the lessons:
Math1 == <<"M", "a", "t", "h", " ", "1">>
Chem == <<"C", "h", "e", "m">>
Subjects == {Math1, Chem}

\* str.lower()
Lower(s) ==
    [i \in 1..Len(s) |->
        CASE s[i] = "M" -> "m" [] s[i] = "C" -> "c" [] s[i] = "P" -> "p"
          [] OTHER -> s[i]]

\* str.replace(' ', '')
RECURSIVE NoSpaces(_)
NoSpaces(s) ==
    IF s = <<>> THEN <<>>
    ELSE IF Head(s) = " " THEN NoSpaces(Tail(s))
    ELSE <<Head(s)>> \o NoSpaces(Tail(s))

\* "a in b" of two strings
In(a, b) == \E i \in 0..(Len(b) - Len(a)) : SubSeq(b, i + 1, i + Len(a)) = a

\* The columns and the relationship of db.models.Lesson: the attributes a
\* row of the table lessons has.
LessonAttributes ==
    {"id", "user_id", "url", "name", "active", "last_checked", "last_marked",
     "user"}

\* A lesson as check_user_attendances reads it: its id, the parts of its
\* URL between the slashes and its name (empty when None).
LessonRow(id, url_parts, name) == [id |-> id, url |-> url_parts, name |-> name]

\* The active lessons a holder can have: one named like the subject, one
\* without a name whose URL holds the subject, one whose name holds the
\* subject, and one of another subject whose URL part is too short.
LessonRows ==
    {LessonRow(1, <<<<"d", "l">>, <<"c", "1">>>>, <<"M", "a", "t", "h">>),
     LessonRow(2, <<<<"d", "l">>, <<"m", "a", "t", "h">>>>, <<>>),
     LessonRow(3, <<<<"d", "l">>, <<"c", "3">>>>,
               <<"m", "a", "t", "h", " ", "1", "0">>),
     LessonRow(4, <<<<"d", "l">>, <<"c", "h", "e">>>>,
               <<"P", "h", "y", "s">>)}

\* The lists of at most MaxLessons different lessons.
LessonLists ==
    {ls \in UNION {[1..n -> LessonRows] : n \in 0..MaxLessons} :
        \A i, j \in 1..Len(ls) : i # j => ls[i] # ls[j]}

\* "is_matching" of lines 217-239: the name of the lesson, lowered and
\* without spaces, is in the subject or the subject in it; or a part of
\* the URL longer than 3 characters is in the subject.
is_matching(lesson, class_name) ==
    \/ /\ lesson.name # <<>> /\ class_name # <<>>
       /\ LET lesson_name_clean == NoSpaces(Lower(lesson.name))
              class_name_clean == NoSpaces(Lower(class_name))
          IN  \/ In(lesson_name_clean, class_name_clean)
              \/ In(class_name_clean, lesson_name_clean)
    \/ \E k \in 1..Len(lesson.url) :
          Len(lesson.url[k]) > 3 /\ In(Lower(lesson.url[k]), Lower(class_name))

\* What the loops of check_user_attendances make of the lessons: whether
\* an exception ended them, and the lessons handed to
\* check_lesson_attendance, in their order.
Selected(raised, checked) == [raised |-> raised, checked |-> checked]

\* s without the elements that are not in keep
RECURSIVE Filter(_, _)
Filter(s, keep) ==
    IF s = <<>> THEN <<>>
    ELSE IF Head(s) \in keep THEN <<Head(s)>> \o Filter(Tail(s), keep)
    ELSE Filter(Tail(s), keep)

\* Lines 206-273 for a class in session: "if not lesson.is_active" (213)
\* is evaluated for the first lesson, and a Lesson has no attribute
\* is_active: the AttributeError leaves the loop for the except of line
\* 290.  With the attribute at hand, every lesson is paired with its
\* is_matching, and the matching ones are checked if there is one, else
\* all of them (246-257).
LessonsChecked(lessons, class_name) ==
    IF lessons # <<>> /\ "is_active" \notin LessonAttributes
    THEN Selected(TRUE, <<>>)
    ELSE LET matching == {lessons[i] : i \in {j \in 1..Len(lessons) :
                                is_matching(lessons[j], class_name)}}
             has_matching == matching # {}
         IN  Selected(FALSE,
                      IF has_matching THEN Filter(lessons, matching)
                      ELSE lessons)

\* The lessons handed to check_user_attendances with the subject of the
\* class in session, and what was made of them.
Selection(lessons, class_name, called, result) ==
    [lessons |-> lessons, class_name |-> class_name, called |-> called,
     result |-> result]

NoSelection == Selection(<<>>, Chem, FALSE, Selected(FALSE, <<>>))

LessonIdle ==
    /\ submission = NoSubmission
    /\ lesson_call = NoLessonCall
    /\ store = EmptyStore
    /\ checks = 0
    /\ delays = 0
    /\ holder_pass = NoHolderPass
    /\ selection = NoSelection

---------------------------------------------------------------------------
(* The schedule gate (src/simple_schedule_parser.py): the timetable file,  *)
(* load_schedule and is_class_time.                                        *)
(*                                                                         *)
(* A date is the number of its day (1: 01.09.2025), a time of day the      *)
(* number of minutes since midnight.  A row of the file is the sequence    *)
(* of its cells, already stripped of quotes and blanks.                    *)
(* "Zanyattya" = U+0417 U+0430 U+043D U+044F U+0442 U+0442 U+044F, the     *)
(* default subject; "Tema" and "Data" stand for the header words U+0422    *)
(* U+0435 U+043C U+0430 and U+0414 U+0430 U+0442 U+0430; the subjects of   *)
(* the example schedule are transliterated as well.                        *)

\* datetime.time(h, m)
time(h, m) == h * 60 + m

Session(date, start_time, end_time, subject) ==
    [date |-> date, start_time |-> start_time, end_time |-> end_time,
     subject |-> subject]

\* Python's None where a session is expected.
NoSession == Session(0, 0, 0, None)

\* datetime.strptime(s, "%d.%m.%Y").date(); 0 when it raises
StrpDate(s) ==
    CASE s = "01.09.2025" -> 1
      [] s = "02.09.2025" -> 2
      [] OTHER -> 0

\* datetime.strptime(s, "%H:%M:%S").time(); -1 when it raises
StrpTime(s) ==
    CASE s = "09:30:00" -> time(9, 30)
      [] s = "10:00:00" -> time(10, 0)
      [] s = "11:05:00" -> time(11, 5)
      [] s = "11:30:00" -> time(11, 30)
      [] OTHER -> -1

\* re.findall(r'(\d{2}\.\d{2}\.\d{4})', cell)
FindDates(cell) ==
    CASE cell \in {"01.09.2025", "01.09.2025 Mon"} -> <<"01.09.2025">>
      [] cell \in {"02.09.2025", "02.09.2025 Tue"} -> <<"02.09.2025">>
      [] OTHER -> <<>>

\* re.findall(r'(\d{2}:\d{2}:\d{2})', cell)
FindTimes(cell) ==
    IF cell \in {"09:30:00", "10:00:00", "11:05:00", "11:30:00"}
    THEN <<cell>> ELSE <<>>

\* The rows a timetable file is made of: a header, two sessions that
\* overlap (the second without a subject), a session whose date cell
\* carries the weekday, a row in other formats, a row of two cells.
HeaderRow == <<"Tema", "Data", "Chas", "Data", "Chas">>
CsvRows ==
    <<HeaderRow,
      <<"Physics", "02.09.2025 Tue", "09:30:00", "02.09.2025", "11:05:00">>,
      <<"", "01.09.2025", "10:00:00", "01.09.2025", "11:30:00">>,
      <<"Math", "01.09.2025", "09:30:00", "01.09.2025", "11:05:00">>,
      <<"Chemistry", "2025-09-01", "9:30", "2025-09-01", "11:05">>,
      <<"Math", "01.09.2025">>>>

\* The selections of at most MaxRows lines of CsvRows, in their order.
Selections ==
    {sel \in UNION {[1..n -> 1..Len(CsvRows)] : n \in 0..MaxRows} :
        \A i \in 1..(Len(sel) - 1) : sel[i] < sel[i + 1]}

\* The timetable file: missing, present but failing to be read (open
\* raises something else than UnicodeDecodeError), or a text of rows.  The
\* last encoding tried, iso-8859-1, decodes any file, so that "text is
\* None" (lines 46-49) does not happen.
CsvFile(kind, rows) == [kind |-> kind, rows |-> rows]

CsvFiles ==
    {CsvFile("missing", <<>>), CsvFile("unreadable", <<>>)}
    \cup {CsvFile("text", [i \in 1..Len(sel) |-> CsvRows[sel[i]]]) :
             sel \in Selections}

\* The days "today" can be when the example schedule is built: dates are
\* days of September 2025, the 1st a Monday and the 6th a Saturday.
Days == {1, 6}

\* The header csv.DictReader of schedule_parser.py looks its columns up
\* in: "Data nachala" = U+0414 U+0430 U+0442 U+0430 U+043D U+0430 U+0447
\* U+0430 U+043B U+0430, and so on.
DictHeader ==
    <<"Tema", "Data nachala", "Vremya nachala", "Data zaversheniya",
      "Vremya zaversheniya">>

\* "if len(rows) > 0 and any(['Tema' in str(rows[0]), 'Data' in
\*  str(rows[0])]): rows = rows[1:]"
SkipHeader(rows) ==
    IF Len(rows) > 0 /\ rows[1] \in {HeaderRow, DictHeader}
    THEN Tail(rows) ELSE rows

\* The elements of a sequence of sequences, in order.
RECURSIVE Flatten(_)
Flatten(ss) == IF ss = <<>> THEN <<>> ELSE Head(ss) \o Flatten(Tail(ss))

\* "subject or default"
SubjectOf(row) == IF row[1] = "" THEN "Zanyattya" ELSE row[1]

\* One pass of "for row in rows": the sessions the row appends (none or
\* one).  Rows of less than five cells are skipped; the cells are parsed
\* with strptime; when that raises, the first date and the first two
\* times found in the line by the patterns are parsed instead.
ParseRow(row) ==
    IF Len(row) < 5 THEN <<>>
    ELSE IF /\ StrpDate(row[2]) # 0
            /\ StrpTime(row[3]) # -1
            /\ StrpTime(row[5]) # -1
      THEN <<Session(StrpDate(row[2]), StrpTime(row[3]), StrpTime(row[5]),
                     SubjectOf(row))>>
    ELSE LET dates == Flatten([i \in 1..Len(row) |-> FindDates(row[i])])
             times == Flatten([i \in 1..Len(row) |-> FindTimes(row[i])])
         IN  IF dates = <<>> \/ Len(times) < 2 THEN <<>>
             ELSE <<Session(StrpDate(dates[1]), StrpTime(times[1]),
                            StrpTime(times[2]), SubjectOf(row))>>

\* "key=lambda x: (x['date'], x['start_time'])": a is not after b
KeyLeq(a, b) ==
    \/ a.date < b.date
    \/ a.date = b.date /\ a.start_time <= b.start_time

\* x put behind the sessions of a sorted s that are not after it
RECURSIVE InsertSorted(_, _)
InsertSorted(s, x) ==
    IF s = <<>> THEN <<x>>
    ELSE IF KeyLeq(Head(s), x) THEN <<Head(s)>> \o InsertSorted(Tail(s), x)
    ELSE <<x>> \o s

\* self.schedule.sort(key=...): list.sort is stable
RECURSIVE SortSchedule(_)
SortSchedule(s) ==
    IF s = <<>> THEN <<>>
    ELSE InsertSorted(SortSchedule(SubSeq(s, 1, Len(s) - 1)), s[Len(s)])

\* _load_example_data: the schedule it installs
ExampleSchedule(today) ==
    <<Session(today, time(9, 30), time(11, 5), "Programmirovanie"),
      Session(today, time(11, 15), time(12, 50), "Matematika"),
      Session(today + 1, time(13, 10), time(14, 45), "Fizika")>>

\* The gate a load_schedule call leaves, and what it returns.
Gate(sched, loaded, ret) ==
    [schedule |-> sched, is_loaded |-> loaded, ret |-> ret]

\* Mutant: the sessions are left in the order of the rows.
FinishLoadUnsorted(sched, loaded, today) ==
    IF sched = <<>> THEN Gate(ExampleSchedule(today), TRUE, TRUE)
    ELSE Gate(sched, TRUE, TRUE)

\* Mutant: no example data when no row was parsed.
FinishLoadNoFallback(sched, loaded, today) ==
    Gate(SortSchedule(sched), TRUE, TRUE)

\* Mutant: is_loaded is set by _load_example_data only.
FinishLoadNotMarked(sched, loaded, today) ==
    IF sched = <<>> THEN Gate(ExampleSchedule(today), TRUE, TRUE)
    ELSE Gate(SortSchedule(sched), loaded, TRUE)

\* The end of load_schedule (lines 131-141), sched being what the rows
\* appended: example data when that is nothing, else the sort.
FinishLoad(sched, loaded, today) ==
    IF sched = <<>> THEN Gate(ExampleSchedule(today), TRUE, TRUE)
    ELSE Gate(SortSchedule(sched), TRUE, TRUE)

\* What "for row in rows" appends to the emptied schedule.
ParseRows(rows) == Flatten([i \in 1..Len(rows) |-> ParseRow(rows[i])])

\* load_schedule, run from its first line to its return
load_schedule(file, sched, loaded, today) ==
    IF file.kind = "missing" THEN Gate(sched, loaded, FALSE)
    ELSE IF file.kind = "unreadable"
      THEN Gate(ExampleSchedule(today), TRUE, TRUE)
    ELSE FinishLoad(ParseRows(SkipHeader(file.rows)), loaded, today)

\* row[name] of a row of csv.DictReader, the first row of the file giving
\* the names: "" when the header has no such column (KeyError) or the row
\* no such cell (None), with which strptime raises.
Field(fieldnames, row, name) ==
    LET ks == {k \in 1..Len(fieldnames) : fieldnames[k] = name}
    IN  IF ks = {} THEN ""
        ELSE LET k == CHOOSE x \in ks : \A y \in ks : y <= x
             IN  IF k > Len(row) THEN "" ELSE row[k]

\* One pass of "for row in reader" of schedule_parser.py (lines 37-59):
\* the four dates and times are parsed with strptime, and a row with
\* which that raises is skipped; the subject is the cell 'Tema' or
\* "Zanyatie" (U+0417 U+0430 U+043D U+044F U+0442 U+0438 U+0435).
ParseDictRow(fieldnames, row) ==
    IF \/ StrpDate(Field(fieldnames, row, "Data nachala")) = 0
       \/ StrpTime(Field(fieldnames, row, "Vremya nachala")) = -1
       \/ StrpDate(Field(fieldnames, row, "Data zaversheniya")) = 0
       \/ StrpTime(Field(fieldnames, row, "Vremya zaversheniya")) = -1
    THEN <<>>
    ELSE <<Session(StrpDate(Field(fieldnames, row, "Data nachala")),
                   StrpTime(Field(fieldnames, row, "Vremya nachala")),
                   StrpTime(Field(fieldnames, row, "Vremya zaversheniya")),
                   IF Field(fieldnames, row, "Tema") = "" THEN "Zanyatie"
                   ELSE Field(fieldnames, row, "Tema"))>>

\* load_schedule of schedule_parser.py (lines 24-75), run from its first
\* line to its return: the sessions of the rows are appended to
\* self.schedule as the call finds it, which no line empties; the end
\* (61-70) is that of simple_schedule_parser.py.
schedule_parser_load_schedule(file, sched, loaded, today) ==
    IF file.kind = "missing" THEN Gate(sched, loaded, FALSE)
    ELSE IF file.kind = "unreadable"
      THEN Gate(ExampleSchedule(today), TRUE, TRUE)
    ELSE LET rows == file.rows
             appended ==
                 Flatten([i \in 1..(Len(rows) - 1) |->
                             ParseDictRow(rows[1], rows[i + 1])])
         IN  FinishLoad(sched \o appended, loaded, today)

\* load_schedule of the parser of the given module
LoadWith(module, file, sched, loaded, today) ==
    IF module = "schedule_parser"
    THEN schedule_parser_load_schedule(file, sched, loaded, today)
    ELSE load_schedule(file, sched, loaded, today)

\* What is_class_time returns.
ClassTime(open, session) == [open |-> open, session |-> session]

\* Mutant: the bounds of a session are excluded.
ScanScheduleExclusive(sched, d, t) ==
    LET hits == {i \in 1..Len(sched) :
                    /\ sched[i].date = d
                    /\ sched[i].start_time < t
                    /\ t < sched[i].end_time}
    IN  IF hits = {} THEN ClassTime(FALSE, NoSession)
        ELSE ClassTime(TRUE, sched[First(hits)])

\* "for session in self.schedule: if session['date'] == current_date and
\*  session['start_time'] <= current_time_no_tz <= session['end_time']:
\*  return True, session" and "return False, None" (lines 187-195)
ScanSchedule(sched, d, t) ==
    LET hits == {i \in 1..Len(sched) :
                    /\ sched[i].date = d
                    /\ sched[i].start_time <= t
                    /\ t <= sched[i].end_time}
    IN  IF hits = {} THEN ClassTime(FALSE, NoSession)
        ELSE ClassTime(TRUE, sched[First(hits)])

\* What an is_class_time call returns and the gate it leaves: a gate that
\* is not loaded is loaded first, and when that returns False the answer
\* is (True, None).
Answered(result, sched, loaded) ==
    [result |-> result, schedule |-> sched, is_loaded |-> loaded]

is_class_time(file, sched, loaded, today, d, t) ==
    IF loaded THEN Answered(ScanSchedule(sched, d, t), sched, loaded)
    ELSE LET g == load_schedule(file, sched, loaded, today)
         IN  IF ~g.ret
             THEN Answered(ClassTime(TRUE, NoSession), g.schedule,
                           g.is_loaded)
             ELSE Answered(ScanSchedule(g.schedule, d, t), g.schedule,
                           g.is_loaded)

\* The load_schedule call of the start/reload thread: where it is ("idle",
\* "rows"), the rows it read and the next of them, the schedule it found
\* when it began, and what the last call returned ("none" before any).
Loader(pc, rows, i, before, ret) ==
    [pc |-> pc, rows |-> rows, i |-> i, before |-> before, ret |-> ret]

IdleLoader(ret) == Loader("idle", <<>>, 0, <<>>, ret)

\* The is_class_time call of the reading thread: the date and time asked
\* about, what it returned, and whether the gate was loaded and a
\* load_schedule call of the other thread under way when it ran.
GateCall(called, d, t, result, loaded, loading) ==
    [called |-> called, date |-> d, time |-> t, result |-> result,
     loaded |-> loaded, loading |-> loading]

NoGateCall == GateCall(FALSE, 0, 0, ClassTime(FALSE, NoSession), FALSE, FALSE)

GateIdle ==
    /\ parser = "simple_schedule_parser"
    /\ csv_file = CsvFile("missing", <<>>)
    /\ schedule = <<>>
    /\ is_loaded = FALSE
    /\ loader = IdleLoader("none")
    /\ gate_call = NoGateCall

---------------------------------------------------------------------------
(* The scheduler (src/scheduler/tasks.py): the interval job added by       *)
(* start() and the check pass it runs, _run_check_attendance.              *)

\* add_job is given no max_instances: the scheduler's default applies, one
\* running instance per job.
max_instances == 1

\* Mutant: a fired job is always run.
CanStartAlways(running) == TRUE

\* A firing runs the job while fewer than max_instances instances of it
\* are running, and is skipped otherwise.
CanStart(running) == running < max_instances

\* A running pass: where it is ("gate": before is_class_time, line 110;
\* "users": before get_all_users, line 125; "close": before the finally
\* of line 147), what the gate answered, the call that raised out of the
\* loop over the holders, the holders handed to check_user_attendances
\* and the lessons handed to check_attendance and to mark_attendance.
Pass(pc, gate, failed, holders, checked, marked) ==
    [pc |-> pc, gate |-> gate, failed |-> failed, holders |-> holders,
     checked |-> checked, marked |-> marked]

\* The staticmethods of DatabaseManager (src/db/database.py).
DatabaseManagerMethods ==
    {"get_user_by_telegram_id", "create_user", "set_user_credentials",
     "add_lesson", "get_user_lessons", "remove_lesson",
     "toggle_lesson_status", "get_all_active_users_and_lessons",
     "update_lesson_check_time", "update_lesson_mark_time"}

\* The rows of the tables users and lessons (src/db/models.py).
Lesson(url, active) == [url |-> url, active |-> active]

Holder(telegram_id, moodle_username, encrypted_password, active, lessons) ==
    [telegram_id |-> telegram_id, moodle_username |-> moodle_username,
     encrypted_password |-> encrypted_password, active |-> active,
     lessons |-> lessons]

Holders ==
    {Holder(1, "student", "secret", TRUE,
            {Lesson("lesson1", TRUE), Lesson("lesson2", TRUE)}),
     Holder(2, "student2", "secret2", TRUE,
            {Lesson("lesson1", FALSE), Lesson("lesson2", TRUE)}),
     Holder(3, None, None, TRUE, {Lesson("lesson1", TRUE)}),
     Holder(4, "student4", "secret4", FALSE, {Lesson("lesson1", TRUE)})}

\* The active holders with credentials and an active lesson, and their
\* active lessons.
ActiveHolders ==
    {h \in Holders :
        /\ h.active
        /\ h.moodle_username # None /\ h.encrypted_password # None
        /\ \E l \in h.lessons : l.active}

ActiveLessons ==
    UNION {{<<h.telegram_id, l.url>> : l \in {x \in h.lessons : x.active}} :
              h \in ActiveHolders}

\* What is_class_time does at line 110: (True, session), (True, None),
\* (False, None), or an exception.
GateOutcomes == {"open", "open_no_session", "closed", "raises"}

\* What the scheduler or a pass did last.
SchedEvent(event, detail) == [event |-> event, detail |-> detail]

\* s without its i-th element
Without(s, i) == SubSeq(s, 1, i - 1) \o SubSeq(s, i + 1, Len(s))

SchedIdle ==
    /\ passes = <<>>
    /\ firings = 0
    /\ sched_event = SchedEvent("none", "none")

ScanIdle == page = <<>> /\ scan = NotScanned

SubmitIdle == form_page = NoFormPage /\ submit = NotSubmitted

ClientIdle ==
    /\ now = 0
    /\ ticks = 0
    /\ username = None
    /\ password = None
    /\ is_logged_in = FALSE
    /\ attendance_cache = EmptyCache
    /\ last = Call("init", None, NoResult, 0, 0, 0)

Init ==
    /\ ClientInit /\ ScanIdle /\ SubmitIdle /\ LessonIdle
    /\ GateIdle /\ SchedIdle

Next == Tick \/ Login \/ CheckAttendance

Spec == Init /\ [][Next]_vars

---------------------------------------------------------------------------
(* The scan as a step of its own: a page is given, the scan is applied.    *)

ScanInit ==
    /\ ClientIdle /\ SubmitIdle /\ LessonIdle /\ GateIdle /\ SchedIdle
    /\ page \in Pages
    /\ scan = NotScanned

ScanStep ==
    /\ scan = NotScanned
    /\ scan' = ScanPage(page)
    /\ UNCHANGED <<page, clientVars, submitVars, lessonVars, gateVars,
                   schedVars>>

SpecScan == ScanInit /\ [][ScanStep]_vars

---------------------------------------------------------------------------
(* Claims about the result cache and the login gate (under Spec).          *)

\* The step is a check_attendance call on lesson URL u.
IsCheckOf(u) == last'.op = "check_attendance" /\ last'.url = u

\* The age of the entry of u, in the state the call starts in.
Cached(u) == u \in DOMAIN attendance_cache
Age(u) == now - attendance_cache[u].last_checked

\* C1: a check_attendance call for a lesson URL whose cache entry was
\* written less than 300 seconds before returns exactly the stored result,
\* calls login() not at all, sends no login request and no page request,
\* and leaves the cache and the logged-in flag as they were.
C1_FreshEntryIsServed ==
    [][\A u \in LessonUrls :
          (IsCheckOf(u) /\ Cached(u) /\ Age(u) < 300)
          => /\ last'.result = attendance_cache[u].status
             /\ last'.login_calls = 0
             /\ last'.login_requests = 0
             /\ last'.page_fetches = 0
             /\ attendance_cache' = attendance_cache
             /\ is_logged_in' = is_logged_in]_vars

\* C1's case: a call answered without any request from an entry written
\* earlier (so not by this call) and less than 300 seconds old, here a
\* stored NotAvailable.
C1_Witness ==
    /\ last.op = "check_attendance"
    /\ last.page_fetches = 0
    /\ last.login_calls = 0
    /\ last.url \in DOMAIN attendance_cache
    /\ attendance_cache[last.url].last_checked < now
    /\ now - attendance_cache[last.url].last_checked < 300
    /\ last.result = NotAvailable
    /\ attendance_cache[last.url].status = NotAvailable

\* C2: a check_attendance call for a lesson URL whose cache entry is more
\* than 300 seconds old is not answered from the cache: it goes through
\* the login gate (login() is called exactly when the client is not logged
\* in) and, once authenticated, requests the lesson page again; the only
\* way it ends without the page request is the failed login of C8.
C2_ExpiredEntryIsAMiss ==
    [][\A u \in LessonUrls :
          (IsCheckOf(u) /\ Cached(u) /\ Age(u) > 300)
          => /\ last'.login_calls = (IF is_logged_in THEN 0 ELSE 1)
             /\ is_logged_in' => last'.page_fetches = 1
             /\ ~is_logged_in' =>
                   /\ ~is_logged_in
                   /\ last'.result = NotLoggedIn
                   /\ last'.page_fetches = 0]_vars

\* C2's case: a call for a URL whose entry was more than 300 seconds old
\* requested the page; the request failed, so that the expired entry is
\* still in the cache.
C2_Witness ==
    /\ last.op = "check_attendance"
    /\ last.page_fetches = 1
    /\ last.result.status = "error"
    /\ last.url \in DOMAIN attendance_cache
    /\ now - attendance_cache[last.url].last_checked > 300

\* C7: when check_attendance returns an Available or NotAvailable result
\* from a fresh scan of the page (it requested the page), the cache maps
\* the lesson URL to exactly that result with the time of the call, and
\* holds for every other URL what it held before.
C7_WriteThrough ==
    [][\A u \in LessonUrls :
          (/\ IsCheckOf(u)
           /\ last'.page_fetches = 1
           /\ last'.result.status \in {"available", "not_available"})
          => /\ DOMAIN attendance_cache' = DOMAIN attendance_cache \cup {u}
             /\ attendance_cache'[u] =
                    [status |-> last'.result, last_checked |-> now]
             /\ \A v \in DOMAIN attendance_cache \ {u} :
                    attendance_cache'[v] = attendance_cache[v]]_vars

\* C7's case: a fresh scan was written for one URL at the time of the call
\* while the entry of another URL, written earlier, is still there.
C7_Witness ==
    /\ last.op = "check_attendance"
    /\ last.page_fetches = 1
    /\ last.result.status = "available"
    /\ last.url \in DOMAIN attendance_cache
    /\ attendance_cache[last.url] =
           [status |-> last.result, last_checked |-> now]
    /\ \E v \in DOMAIN attendance_cache \ {last.url} :
           attendance_cache[v].last_checked < now

\* C8: a check_attendance call that misses the cache while the client is
\* not logged in, and whose login fails, returns the error 'Not logged in',
\* requests no lesson page and leaves the cache as it was.
C8_LoginFailureStopsTheCheck ==
    [][\A u \in LessonUrls :
          (/\ IsCheckOf(u)
           /\ ~(Cached(u) /\ Age(u) < 300)
           /\ ~is_logged_in
           /\ ~is_logged_in')
          => /\ last'.result = ErrorResult("Not logged in")
             /\ last'.page_fetches = 0
             /\ attendance_cache' = attendance_cache]_vars

\* C8's case: the call called login(), which sent its requests and failed,
\* while an older entry of the URL lies expired in the cache.
C8_Witness ==
    /\ last.op = "check_attendance"
    /\ last.login_calls = 1
    /\ last.login_requests = 2
    /\ ~is_logged_in
    /\ last.result = ErrorResult("Not logged in")
    /\ last.page_fetches = 0
    /\ last.url \in DOMAIN attendance_cache
    /\ now - attendance_cache[last.url].last_checked >= 300

---------------------------------------------------------------------------
(* Claims about the scan of a fetched page (under SpecScan).               *)

PageScanned == scan # NotScanned

\* What the ordered chain (a) button, (b) link, (c) text with parent link,
\* (d) attendance section gives when the first heuristic that matches wins.
FirstMatch(p) ==
    IF AttendanceBtns(p) # {} THEN AvailableButton
    ELSE IF Option2(p) # None THEN AvailableFormUrl(Option2(p))
    ELSE IF Option3(p) # None THEN AvailableFormUrl(Option3(p))
    ELSE IF Option4(p) # None THEN AvailableFormUrl(Option4(p))
    ELSE IF Option5(p) THEN AvailableFormAction(Option5Action(p))
    ELSE NotAvailable

\* C3: the result of the scan is the one of the earliest heuristic, in the
\* order (a), (b), (c), (d), that matches the page; so a page with a
\* matching submit input gives Available(button found) whatever else is on
\* it.
C3_FirstMatchWins == PageScanned => scan.result = FirstMatch(page)

\* The first text node matching the phrase, and whether the nearest link
\* around it has a target.
FirstSubmitText(p) ==
    {i \in 1..Len(p) :
        /\ IsSubmitText(p[i])
        /\ \A j \in 1..(i - 1) : ~IsSubmitText(p[j])}
TextHasParentLink(p) ==
    \E i \in FirstSubmitText(p) : p[i].tag = "a" /\ p[i].href # None

\* C4: on a page with no matching submit input and no link matched by
\* (b), whose matching free text lies in a link with a target, the result
\* is Available with that link's URL as form URL; and the text heuristic
\* (option 4) produces the result only when the button and link heuristics
\* have failed.
C4_TextThenParentLink ==
    PageScanned =>
        /\ (/\ AttendanceBtns(page) = {}
            /\ Option2(page) = None
            /\ Option3(page) = None
            /\ TextHasParentLink(page))
           => \E i \in FirstSubmitText(page) :
                  scan.result = AvailableFormUrl(page[i].href)
        /\ scan.option = 4
           => /\ AttendanceBtns(page) = {}
              /\ Option2(page) = None
              /\ Option3(page) = None

\* C5: an Available result produced by the link heuristic (b) (options 2
\* and 3) carries a target URL that references the attendance endpoint.
C5_LinkNeedsAttendanceEndpoint ==
    (PageScanned /\ scan.option \in {2, 3})
    => scan.result.value = AttendanceHref

\* The heuristics, each read off the elements of the page.
MatchA(p) ==
    \E i \in 1..Len(p) :
        /\ p[i].tag = "input"
        /\ p[i].text \in {"Submit attendance", "otmetitsya"}
LinkStringMatches(e) ==
    /\ e.tag = "a"
    /\ e.single
    /\ e.text \in {"Submit attendance", "Mark attendance", "otmetitsya"}
MatchB(p) ==
    \/ \E i \in 1..Len(p) :
        /\ p[i].tag = "a" /\ p[i].single
        /\ p[i].text = "Submit attendance"
        /\ p[i].href = AttendanceHref
    \/ \E i \in 1..Len(p) :
        /\ LinkStringMatches(p[i])
        /\ \A j \in 1..(i - 1) : ~LinkStringMatches(p[j])
        /\ p[i].href # None
TextMatches(e) ==
    /\ e.tag \in {"a", "text"}
    /\ e.text \in {"Submit attendance", "Mark attendance", "prisutstvie"}
MatchC(p) ==
    \E i \in 1..Len(p) :
        /\ TextMatches(p[i])
        /\ \A j \in 1..(i - 1) : ~TextMatches(p[j])
        /\ p[i].tag = "a"
        /\ p[i].href # None
MatchD(p) ==
    \E i \in 1..Len(p) :
        /\ p[i].tag = "div"
        /\ \A j \in 1..(i - 1) : p[j].tag # "div"
        /\ p[i].has_form

\* C6: on a fetched page the scan returns NotAvailable exactly when none
\* of the heuristics (a)-(d) matches, also when the matching free text has
\* no link with a target around it and when the attendance-classed region
\* holds no form.
C6_NotAvailableIffNoMatch ==
    PageScanned =>
        (scan.result = NotAvailable
         <=> ~(MatchA(page) \/ MatchB(page) \/ MatchC(page) \/ MatchD(page)))

\* C6's case: NotAvailable for a page that holds matching free text outside
\* any link and an attendance-classed region without a form.
C6_Witness ==
    /\ PageScanned
    /\ scan.result = NotAvailable
    /\ \E i \in 1..Len(page) : page[i].tag = "text"
    /\ \E i \in 1..Len(page) : page[i].tag = "div" /\ ~page[i].has_form

---------------------------------------------------------------------------
(* The payload as a step of its own: a form page is given, the payload is  *)
(* built from it.                                                          *)

PayloadInit ==
    /\ ClientIdle /\ ScanIdle /\ LessonIdle /\ GateIdle /\ SchedIdle
    /\ form_page \in FormPages
    /\ submit = NotSubmitted

BuildPayload ==
    /\ ~submit.built
    /\ submit' = Payload(TRUE, FormData(form_page))
    /\ UNCHANGED <<form_page, clientVars, scanVars, lessonVars, gateVars,
                   schedVars>>

SpecPayload == PayloadInit /\ [][BuildPayload]_vars

---------------------------------------------------------------------------
(* Claims about the payload (under SpecPayload).                           *)

Radios(pg) == {i \in 1..Len(pg.inputs) : pg.inputs[i].type = "radio"}

\* The form holds exactly three radios, labelled Absent, Present and Late
\* in some order, with three different values.
AbsentPresentLate(pg) ==
    /\ Cardinality(Radios(pg)) = 3
    /\ {pg.inputs[i].label : i \in Radios(pg)} = {"Absent", "Present", "Late"}
    /\ Cardinality({pg.inputs[i].value : i \in Radios(pg)}) = 3

\* C9: for a form whose radios are labelled Absent, Present and Late, in
\* any order, the payload carries for the radio group the value of the
\* radio labelled Present.
C9_PresentLabelIsSelected ==
    (submit.built /\ AbsentPresentLate(form_page))
    => \E i \in Radios(form_page) :
          /\ form_page.inputs[i].label = "Present"
          /\ "status" \in DOMAIN submit.data
          /\ submit.data["status"] = form_page.inputs[i].value

\* The form holds several radios, and no input is taken for the present
\* option: none is named like 'status' with the value '1', and no radio
\* has a value matching '1|present'.
NoPresentAmongSeveral(pg) ==
    /\ Cardinality(Radios(pg)) >= 2
    /\ \A i \in 1..Len(pg.inputs) :
          /\ ~(pg.inputs[i].name = "status" /\ pg.inputs[i].value = "1")
          /\ ~(pg.inputs[i].type = "radio"
               /\ pg.inputs[i].value \in {"1", "present"})

\* C10, as stated: when the form has several radios and none is taken for
\* the present option (nor labelled Present), the payload carries the
\* value of the first radio of the group.
C10_FirstRadioIsSubmitted ==
    (/\ submit.built
     /\ NoPresentAmongSeveral(form_page)
     /\ \A i \in Radios(form_page) : form_page.inputs[i].label # "Present")
    => \E i \in Radios(form_page) :
          /\ \A j \in Radios(form_page) : i <= j
          /\ submit.data["status"] = form_page.inputs[i].value

\* C10, amended: in that case the payload carries the value of the last
\* radio of the group.
C10_LastRadioIsSubmitted ==
    (submit.built /\ NoPresentAmongSeveral(form_page))
    => \E i \in Radios(form_page) :
          /\ \A j \in Radios(form_page) : j <= i
          /\ "status" \in DOMAIN submit.data
          /\ submit.data["status"] = form_page.inputs[i].value

\* C10's case: a payload built from radios of which none is taken for the
\* present option, the first and the last of them with different values.
C10_Witness ==
    /\ submit.built
    /\ NoPresentAmongSeveral(form_page)
    /\ \E i, k \in Radios(form_page) :
          /\ \A j \in Radios(form_page) : i <= j /\ j <= k
          /\ form_page.inputs[i].value # form_page.inputs[k].value
          /\ submit.data["status"] = form_page.inputs[k].value

---------------------------------------------------------------------------
(* submit_attendance as a call on the client (SpecSubmit), and the lesson  *)
(* check of the scheduler, which calls check_attendance and then           *)
(* mark_attendance on the client (SpecLesson).                             *)

\* The answers that matter to a call: the login answer only when login()
\* is called, the form page and the POST only when the client gets past
\* the login gate.
LoginAnswers(flag) == IF flag THEN {"ok"} ELSE LoginResponses

AnswersAfter(flag, user, pass, login_resp) ==
    IF EnsureLoggedIn(flag, user, pass, login_resp).ok
    THEN SubmitAnswers ELSE {NoAnswer}

\* client.submit_attendance(form_url)
SubmitAttendance ==
    /\ \E form_url \in FormUrls \cup LessonUrls :
       \E login_resp \in LoginAnswers(is_logged_in) :
       \E ans \in AnswersAfter(is_logged_in, username, password, login_resp) :
        LET s == submit_attendance(is_logged_in, username, password,
                                   form_url, login_resp, ans)
        IN  /\ is_logged_in' = s.is_logged_in
            /\ submission' = Submission(TRUE, form_url, ans, s)
            /\ form_page' = ans.form.page
            /\ submit' = s.payload
            /\ last' = Call("submit_attendance", form_url, s.result,
                            s.login_calls, s.login_requests, 0)
    /\ UNCHANGED <<now, ticks, username, password, attendance_cache,
                   scanVars, lesson_call, store, checks, delays,
                   holder_pass, selection, gateVars, schedVars>>

SpecSubmit == Init /\ [][SubmitAttendance]_vars

\* check_lesson_attendance when update_lesson_check_time raises: the
\* exception is logged and notified, the client is not called.
LessonDbFails(lesson_url) ==
    /\ \E delivery \in Deliveries :
         lesson_call' = LessonCall(TRUE, lesson_url, "raises", NoResult,
                                   None, NoResult, "exception", delivery)
    /\ UNCHANGED <<is_logged_in, attendance_cache, last, submitVars,
                   submission, store>>

\* check_lesson_attendance when check_attendance does not return
\* 'available': the check time is written, nothing else is done.
LessonNotMarked(lesson_url, c) ==
    /\ c.result.status # "available"
    /\ is_logged_in' = c.is_logged_in
    /\ attendance_cache' = c.cache
    /\ store' = [store EXCEPT ![lesson_url].last_checked = <<now>>]
    /\ last' = Call("check_attendance", lesson_url, c.result, c.login_calls,
                    c.login_requests, c.page_fetches)
    /\ lesson_call' = LessonCall(TRUE, lesson_url, "ok", c.result, None,
                                 NoResult, None, "none")
    /\ UNCHANGED <<submitVars, submission>>

\* check_lesson_attendance when check_attendance returns 'available':
\* "result = client.mark_attendance(lesson.url)", then the mark time and
\* the notification; db_mark says how update_lesson_mark_time ends and
\* delivery how sending the notification goes.
LessonMarked(lesson_url, c, login_resp, ans, db_mark, delivery) ==
    /\ c.result.status = "available"
    /\ LET s == mark_attendance(c.is_logged_in, username, password,
                                lesson_url, login_resp, ans)
           ok == s.result.status = "success"
       IN  /\ is_logged_in' = s.is_logged_in
           /\ attendance_cache' = c.cache
           /\ store' =
                [store EXCEPT
                   ![lesson_url].last_checked = <<now>>,
                   ![lesson_url].last_marked =
                       MarkTime(@, ok, db_mark, delivery, now)]
           /\ submission' = Submission(TRUE, lesson_url, ans, s)
           /\ form_page' = ans.form.page
           /\ submit' = s.payload
           /\ last' = Call("submit_attendance", lesson_url, s.result,
                           s.login_calls, s.login_requests, 0)
           /\ lesson_call' =
                LessonCall(TRUE, lesson_url, "ok", c.result, lesson_url,
                           s.result,
                           IF ~ok THEN "failure"
                           ELSE IF db_mark = "ok" THEN "success"
                           ELSE "exception",
                           delivery)

\* The answers of the portal drawn for the mark_attendance call of a lesson
\* check: no form page, a page without a form, and a form whose POST
\* fails, is refused, succeeds, reports an error or says nothing.
LessonAnswers ==
    {ans \in SubmitAnswers :
        /\ ans.has_form => ans.form.action = "attendance.php"
        /\ ans.body \in {"", "Attendance submitted",
                          "Error: failed to save"}}

MarkAnswersAfter(flag, user, pass, login_resp) ==
    IF EnsureLoggedIn(flag, user, pass, login_resp).ok
    THEN LessonAnswers ELSE {NoAnswer}

\* check_lesson_attendance(user, lesson, client), the client called with
\* the answers of the portal
LessonChecked(lesson_url, login_resp, fetch, scanned) ==
    LET c == check_attendance(is_logged_in, attendance_cache, username,
                              password, lesson_url, now, login_resp, fetch,
                              scanned)
    IN  \/ LessonNotMarked(lesson_url, c)
        \/ \E mark_resp \in LoginAnswers(c.is_logged_in) :
           \E ans \in MarkAnswersAfter(c.is_logged_in, username, password,
                                       mark_resp) :
           \E db_mark \in
                 IF mark_attendance(c.is_logged_in, username, password,
                                    lesson_url, mark_resp,
                                    ans).result.status = "success"
                 THEN {"ok", "raises"} ELSE {"ok"} :
           \E delivery \in Deliveries :
              LessonMarked(lesson_url, c, mark_resp, ans, db_mark, delivery)

\* The page answers drawn for the check_attendance call: none when the
\* login gate is not passed, else a failing GET or a scanned page.
CheckLessonAttendance ==
    /\ checks < MaxChecks
    /\ delays = 0
    /\ checks' = checks + 1
    /\ delays' = delays
    /\ \E lesson_url \in LessonUrls :
        \/ LessonDbFails(lesson_url)
        \/ /\ CacheFresh(attendance_cache, lesson_url, now)
           /\ LessonChecked(lesson_url, "ok", "200", NoResult)
        \/ /\ ~CacheFresh(attendance_cache, lesson_url, now)
           /\ \E login_resp \in LoginAnswers(is_logged_in) :
                IF ~EnsureLoggedIn(is_logged_in, username, password,
                                   login_resp).ok
                THEN LessonChecked(lesson_url, login_resp, "raises", NoResult)
                ELSE \/ \E fetch \in {"raises", "404"} :
                          LessonChecked(lesson_url, login_resp, fetch,
                                        NoResult)
                     \/ \E scanned \in ScanResults :
                          LessonChecked(lesson_url, login_resp, "200",
                                        scanned)
    /\ UNCHANGED <<now, ticks, username, password, scanVars, holder_pass,
                   selection, gateVars, schedVars>>

\* "await asyncio.sleep(1)" of check_user_attendances (line 288): it
\* stands behind the loop over the lessons, and is run once when the loop
\* has ended.
Sleep ==
    /\ delays = 0
    /\ delays' = delays + 1
    /\ UNCHANGED <<clientVars, scanVars, submitVars, submission,
                   lesson_call, store, checks, holder_pass, selection,
                   gateVars, schedVars>>

\* The lessons of a holder as the loop of check_user_attendances (lines
\* 249-271) hands them to check_lesson_attendance, on the client of the
\* holder, and the delay behind the loop.
SpecLesson == Init /\ [][CheckLessonAttendance \/ Sleep]_vars

---------------------------------------------------------------------------
(* The passes of one holder (SpecHolder): in every pass                    *)
(* check_user_attendances builds a client for the holder, validates the    *)
(* credentials and runs the loop over the lessons on that client; a pass   *)
(* begins some time after the one before.  The holder's row is read as     *)
(* lines 185-190 mean to (moodle_username, encrypted_password), and the    *)
(* class is in session (line 206).                                         *)

\* "client = MoodleClient(...)" and "client.validate_credentials()" (lines
\* 185-195) of the next pass, the call of the pass before having returned:
\* without credentials the call returns before a client is built; the
\* client built has is_logged_in False and an empty cache, and
\* validate_credentials calls login(); when that returns False the call
\* returns.  The call that begins has made no lesson check, and its
\* client has submitted nothing.
NewClient ==
    /\ ticks < MaxTicks
    /\ username # None /\ password # None
    /\ \E d \in ClockSteps : now' = now + d
    /\ ticks' = ticks + 1
    /\ \E resp \in LoginResponses :
         LET r == login(FALSE, username, password, resp)
         IN  /\ is_logged_in' = r.is_logged_in
             /\ attendance_cache' = EmptyCache
             /\ last' = Call("login", None,
                             Result(None, "return",
                                    IF r.ret THEN "True" ELSE "False"),
                             1, r.requests, 0)
             /\ holder_pass' =
                  HolderPass(holder_pass.clients + 1,
                             IF r.ret THEN "lessons" ELSE "idle",
                             attendance_cache)
    /\ lesson_call' = NoLessonCall
    /\ submission' = NoSubmission
    /\ form_page' = NoFormPage
    /\ submit' = NotSubmitted
    /\ UNCHANGED <<username, password, scanVars, store, checks, delays,
                   selection, gateVars, schedVars>>

\* one pass of the loop over the lessons (lines 249-271)
HolderLesson == holder_pass.pc = "lessons" /\ CheckLessonAttendance

HolderNext == NewClient \/ HolderLesson

SpecHolder == Init /\ [][HolderNext]_vars

---------------------------------------------------------------------------
(* The choice of the lessons of a holder (SpecSelect): the loops of        *)
(* check_user_attendances over the active lessons it was handed.           *)

SelectInit ==
    /\ ClientIdle /\ ScanIdle /\ SubmitIdle /\ GateIdle /\ SchedIdle
    /\ submission = NoSubmission
    /\ lesson_call = NoLessonCall
    /\ store = EmptyStore
    /\ checks = 0
    /\ delays = 0
    /\ holder_pass = NoHolderPass
    /\ \E ls \in LessonLists, c \in Subjects :
         selection = Selection(ls, c, FALSE, Selected(FALSE, <<>>))

\* lines 206-273 of check_user_attendances
SelectLessons ==
    /\ ~selection.called
    /\ selection' =
          [selection EXCEPT
             !.called = TRUE,
             !.result = LessonsChecked(selection.lessons,
                                       selection.class_name)]
    /\ UNCHANGED <<clientVars, scanVars, submitVars, submission, lesson_call,
                   store, checks, delays, holder_pass, gateVars, schedVars>>

SpecSelect == SelectInit /\ [][SelectLessons]_vars

---------------------------------------------------------------------------
(* The schedule gate with its two threads (SpecGate): load_schedule called *)
(* by start() or reload_schedule(), one row a step, and is_class_time      *)
(* called by the pass of the scheduler; the file is replaced between       *)
(* loads.                                                                  *)

\* The dates and times is_class_time is asked about.
QueryDays == {1, 2, 6}
QueryTimes == {time(9, 30), time(10, 0), time(11, 5), time(11, 6)}

GateInit ==
    /\ ClientIdle /\ ScanIdle /\ SubmitIdle /\ LessonIdle /\ SchedIdle
    /\ parser = "simple_schedule_parser"
    /\ csv_file \in CsvFiles
    /\ schedule = <<>>
    /\ is_loaded = FALSE
    /\ loader = IdleLoader("none")
    /\ gate_call = NoGateCall

\* load_schedule up to "rows = list(csv_reader)" and the header: a missing
\* file returns False; a file that cannot be read gets the example data;
\* else the schedule is emptied and the rows are at hand.
LoadBegin ==
    /\ loader.pc = "idle"
    /\ \/ /\ csv_file.kind = "missing"
          /\ loader' = IdleLoader("False")
          /\ UNCHANGED <<schedule, is_loaded>>
       \/ /\ csv_file.kind = "unreadable"
          /\ \E today \in Days :
               LET g == load_schedule(csv_file, schedule, is_loaded, today)
               IN  schedule' = g.schedule /\ is_loaded' = g.is_loaded
          /\ loader' = IdleLoader("True")
       \/ /\ csv_file.kind = "text"
          /\ schedule' = <<>>
          /\ loader' = Loader("rows", SkipHeader(csv_file.rows), 1, schedule,
                              "none")
          /\ UNCHANGED is_loaded
    /\ UNCHANGED <<parser, csv_file, gate_call, clientVars, scanVars,
                   submitVars, lessonVars, schedVars>>

\* one pass of "for row in rows"
LoadRow ==
    /\ loader.pc = "rows"
    /\ loader.i <= Len(loader.rows)
    /\ schedule' = schedule \o ParseRow(loader.rows[loader.i])
    /\ loader' = [loader EXCEPT !.i = @ + 1]
    /\ UNCHANGED <<parser, csv_file, is_loaded, gate_call, clientVars,
                   scanVars, submitVars, lessonVars, schedVars>>

\* the end of load_schedule, after the last row
LoadEnd ==
    /\ loader.pc = "rows"
    /\ loader.i > Len(loader.rows)
    /\ \E today \in Days :
         LET g == FinishLoad(schedule, is_loaded, today)
         IN  schedule' = g.schedule /\ is_loaded' = g.is_loaded
    /\ loader' = IdleLoader("True")
    /\ UNCHANGED <<parser, csv_file, gate_call, clientVars, scanVars,
                   submitVars, lessonVars, schedVars>>

\* is_class_time(current_time) in the reading thread, on the schedule as
\* it is at that moment
IsClassTime ==
    /\ \E d \in QueryDays, t \in QueryTimes :
       \E today \in IF is_loaded \/ csv_file.kind = "missing"
                    THEN {1} ELSE Days :
         LET a == is_class_time(csv_file, schedule, is_loaded, today, d, t)
         IN  /\ schedule' = a.schedule
             /\ is_loaded' = a.is_loaded
             /\ gate_call' = GateCall(TRUE, d, t, a.result, is_loaded,
                                      loader.pc # "idle")
    /\ UNCHANGED <<parser, csv_file, loader, clientVars, scanVars,
                   submitVars, lessonVars, schedVars>>

\* the timetable file is replaced, or removed, while no load is under way
ReplaceFile ==
    /\ loader.pc = "idle"
    /\ csv_file' \in CsvFiles \ {csv_file}
    /\ UNCHANGED <<parser, schedule, is_loaded, loader, gate_call,
                   clientVars, scanVars, submitVars, lessonVars, schedVars>>

GateNext == LoadBegin \/ LoadRow \/ LoadEnd \/ IsClassTime \/ ReplaceFile

SpecGate == GateInit /\ [][GateNext]_vars

---------------------------------------------------------------------------
(* Loading and loading again (SpecReload): load_schedule of either module, *)
(* called from start() and reload_schedule() on a file that stays as it    *)
(* is, each call run from its first line to its return.                    *)

\* The modules that define SimpleScheduleParser.
Parsers == {"simple_schedule_parser", "schedule_parser"}

\* The timetable files, and the same texts under the header of
\* schedule_parser.py.
ReloadFiles ==
    CsvFiles
    \cup {CsvFile("text", <<DictHeader>> \o f.rows) :
             f \in {g \in CsvFiles : g.kind = "text"}}

ReloadInit ==
    /\ ClientIdle /\ ScanIdle /\ SubmitIdle /\ LessonIdle /\ SchedIdle
    /\ parser \in Parsers
    /\ csv_file \in ReloadFiles
    /\ schedule = <<>>
    /\ is_loaded = FALSE
    /\ loader = IdleLoader("none")
    /\ gate_call = NoGateCall

\* self.schedule_parser.load_schedule(): loader counts the calls and
\* keeps the schedule the call found.
LoadSchedule ==
    /\ loader.i < MaxLoads
    /\ \E today \in Days :
         LET g == LoadWith(parser, csv_file, schedule, is_loaded, today)
         IN  /\ schedule' = g.schedule
             /\ is_loaded' = g.is_loaded
             /\ loader' = Loader("idle", <<>>, loader.i + 1, schedule,
                                 IF g.ret THEN "True" ELSE "False")
    /\ UNCHANGED <<parser, csv_file, gate_call, clientVars, scanVars,
                   submitVars, lessonVars, schedVars>>

SpecReload == ReloadInit /\ [][LoadSchedule]_vars

---------------------------------------------------------------------------
(* The scheduler and its passes (SpecSched).                               *)

\* the interval trigger fires: the job is run in a thread of the pool, or
\* the run is skipped
Fire ==
    /\ firings < MaxFirings
    /\ firings' = firings + 1
    /\ IF CanStart(Len(passes))
       THEN /\ passes' = Append(passes, Pass("gate", "none", "none", {}, {}, {}))
            /\ sched_event' = SchedEvent("fired", "started")
       ELSE /\ passes' = passes
            /\ sched_event' = SchedEvent("fired", "skipped")
    /\ UNCHANGED <<clientVars, scanVars, submitVars, lessonVars, gateVars>>

\* "is_class_time, class_info = self.schedule_parser.is_class_time(...)",
\* called outside any try of _run_check_attendance_async: an exception
\* leaves the coroutine and is logged by _run_check_attendance (line 79);
\* (False, None) returns; else the pass goes on.
PassGate(i) ==
    /\ passes[i].pc = "gate"
    /\ \E g \in GateOutcomes :
         /\ passes' = IF g \in {"raises", "closed"} THEN Without(passes, i)
                      ELSE [passes EXCEPT ![i].pc = "users", ![i].gate = g]
         /\ sched_event' = SchedEvent("gate", g)
    /\ UNCHANGED <<firings, clientVars, scanVars, submitVars, lessonVars,
                   gateVars>>

\* Mutant: the pass hands every lesson of every holder to the client.
PassUsersAllLessons(i) ==
    /\ passes[i].pc = "users"
    /\ passes' =
         [passes EXCEPT
            ![i].pc = "close",
            ![i].holders = {h.telegram_id : h \in Holders},
            ![i].checked =
                UNION {{<<h.telegram_id, l.url>> : l \in h.lessons} :
                          h \in Holders}]
    /\ sched_event' = SchedEvent("users", "checked")
    /\ UNCHANGED <<firings, clientVars, scanVars, submitVars, lessonVars,
                   gateVars>>

\* "users = DatabaseManager.get_all_users(session)": DatabaseManager
\* (src/db/database.py) has no get_all_users; the AttributeError is
\* caught and logged at line 144.
PassUsers(i) ==
    /\ passes[i].pc = "users"
    /\ "get_all_users" \notin DatabaseManagerMethods
    /\ passes' = [passes EXCEPT ![i].pc = "close",
                                ![i].failed = "get_all_users"]
    /\ sched_event' = SchedEvent("users", "raises")
    /\ UNCHANGED <<firings, clientVars, scanVars, submitVars, lessonVars,
                   gateVars>>

\* "finally: session.close()", the coroutine returns, loop.close()
PassClose(i) ==
    /\ passes[i].pc = "close"
    /\ passes' = Without(passes, i)
    /\ sched_event' = SchedEvent("pass", "finished")
    /\ UNCHANGED <<firings, clientVars, scanVars, submitVars, lessonVars,
                   gateVars>>

SchedInit ==
    /\ ClientIdle /\ ScanIdle /\ SubmitIdle /\ LessonIdle /\ GateIdle
    /\ SchedIdle

SchedNext ==
    \/ Fire
    \/ \E i \in 1..Len(passes) : PassGate(i) \/ PassUsers(i) \/ PassClose(i)

SpecSched == SchedInit /\ [][SchedNext]_vars

---------------------------------------------------------------------------
(* Claims about submit_attendance (under SpecSubmit).                      *)

\* The call fetched the form page and the portal answered 200.
PageFetched == submission.called /\ submission.answer.get = "200"

\* The call posted the payload and the portal answered with a status.
PostAnswered ==
    /\ submission.called
    /\ submission.post_url # None
    /\ submission.answer.post # "raises"

\* Some success marker, some error marker occurs in the body.
HasSuccessMarker(body) ==
    MarkersIn(body) \cap {success_msgs[i] : i \in 1..Len(success_msgs)} # {}
HasErrorMarker(body) ==
    MarkersIn(body) \cap {error_msgs[i] : i \in 1..Len(error_msgs)} # {}

\* C11: when the address handed to submit_attendance carries sessid and
\* sesskey and the page at it was fetched, the call returns Success and
\* posts nothing, whatever the page holds, a form included.
C11_DirectLinkIsNotPosted ==
    (/\ PageFetched
     /\ HasSessid(submission.form_url)
     /\ HasSesskey(submission.form_url))
    => /\ submission.result.status = "success"
       /\ submission.post_url = None

\* C12: a POST answered with a status other than 200 gives Error; answered
\* with 200, a body holding a success marker and an error marker gives
\* Success, and a body holding an error marker and no success marker
\* gives Error.
C12_SuccessMarkersComeFirst ==
    PostAnswered
    => LET status == submission.answer.post
           body == submission.answer.body
       IN  /\ status # "200" => submission.result.status = "error"
           /\ (/\ status = "200"
               /\ HasSuccessMarker(body)
               /\ HasErrorMarker(body))
              => submission.result.status = "success"
           /\ (/\ status = "200"
               /\ ~HasSuccessMarker(body)
               /\ HasErrorMarker(body))
              => submission.result.status = "error"

\* C12's case: a POST answered 200 with a body that holds the success
\* marker "otmecheno" and the error marker "oshibka" returned Success.
C12_Witness ==
    /\ PostAnswered
    /\ submission.answer.post = "200"
    /\ "otmecheno" \in MarkersIn(submission.answer.body)
    /\ "oshibka" \in MarkersIn(submission.answer.body)
    /\ submission.result.status = "success"

\* C13, as stated: a POST answered 200 with a body holding neither a
\* success nor an error marker gives an outcome that is neither Success
\* nor Error; a body holding "uspishno vidmicheno" gives Success.
C13_NoMarkerIsUnknown ==
    (PostAnswered /\ submission.answer.post = "200")
    => LET body == submission.answer.body
       IN  /\ (~HasSuccessMarker(body) /\ ~HasErrorMarker(body))
              => submission.result.status \notin {"success", "error"}
           /\ "uspishno vidmicheno" \in MarkersIn(body)
              => submission.result.status = "success"

\* C13, amended: in the first case the outcome is Success, with the
\* message 'Attendance likely marked (no explicit confirmation)' where a
\* found success marker gives 'Attendance marked successfully'; it is not
\* Error.  A body holding "uspishno vidmicheno" gives Success.
C13_NoMarkerIsAssumedSuccess ==
    (PostAnswered /\ submission.answer.post = "200")
    => LET body == submission.answer.body
       IN  /\ (~HasSuccessMarker(body) /\ ~HasErrorMarker(body))
              => submission.result =
                   Result("success", "message",
                      "Attendance likely marked (no explicit confirmation)")
           /\ "uspishno vidmicheno" \in MarkersIn(body)
              => submission.result =
                   Result("success", "message",
                          "Attendance marked successfully")

\* C13's case: a POST answered 200 with a body without any marker.
C13_Witness ==
    /\ PostAnswered
    /\ submission.answer.post = "200"
    /\ submission.answer.body = "Your choice has been saved"
    /\ submission.result.status = "success"

---------------------------------------------------------------------------
(* Claims about the lesson check (under SpecLesson).                       *)

\* C14: when the check_attendance call of a lesson check returns
\* Available with a form URL or a form action, mark_attendance is called
\* with that address, and that is the address whose page is fetched.
C14_DetectedAddressIsSubmitted ==
    (/\ lesson_call.called
     /\ lesson_call.check.status = "available"
     /\ lesson_call.check.key \in {"form_url", "form_action"}
     /\ lesson_call.check.value # None)
    => /\ lesson_call.marked_url = lesson_call.check.value
       /\ submission.fetched \in {None, lesson_call.check.value}

---------------------------------------------------------------------------
(* Claims about the schedule gate (under SpecGate).                        *)

\* the step is an is_class_time call of the reading thread
GateAsked == gate_call' # gate_call

\* the session holds date d and time t, its bounds included
InSession(s, d, t) == s.date = d /\ s.start_time <= t /\ t <= s.end_time

Sessions(sched) == {sched[i] : i \in 1..Len(sched)}

\* C15: on a loaded gate is_class_time(t) returns (true, s) exactly when
\* some session of the schedule has the date of t and start_time <= t <=
\* end_time, s being such a session, and (false, None) otherwise.
C15_ClassTimeIffInSession ==
    [][(GateAsked /\ is_loaded) =>
         LET r == gate_call'.result
             d == gate_call'.date
             t == gate_call'.time
         IN  /\ r.open <=> \E s \in Sessions(schedule) : InSession(s, d, t)
             /\ r.open => r.session \in Sessions(schedule)
                          /\ InSession(r.session, d, t)
             /\ ~r.open => r.session = NoSession]_vars

\* is_class_time answered true on a loaded gate for a time that is the end
\* of the session it returned
C15_Witness ==
    /\ gate_call.called /\ gate_call.loaded
    /\ gate_call.result.open
    /\ gate_call.time = gate_call.result.session.end_time
    /\ gate_call.date = gate_call.result.session.date

\* C16 (as stated): after any call to load_schedule, whatever the source,
\* the gate is Loaded: is_loaded is true and the schedule is non-empty.
C16_AnyLoadLeavesLoaded ==
    (loader.pc = "idle" /\ loader.ret # "none") =>
        (is_loaded /\ schedule # <<>>)

\* C16 (amended): after a load_schedule that returned True the gate is
\* Loaded with a non-empty schedule; a load_schedule on a missing file
\* returns False and leaves the gate as it was; a Loaded gate never
\* returns to Unloaded.
C16_LoadLeavesLoadedUnlessMissing ==
    /\ []((loader.pc = "idle" /\ loader.ret = "True") =>
            (is_loaded /\ schedule # <<>>))
    /\ [][/\ is_loaded => is_loaded'
          /\ (loader.pc = "idle" /\ loader' # loader) =>
                IF csv_file.kind = "missing"
                THEN loader'.ret = "False"
                     /\ UNCHANGED <<schedule, is_loaded>>
                ELSE loader'.ret \in {"True", "none"}]_vars

\* load_schedule returned False on a missing file, and the gate is still
\* Unloaded
C16_Witness ==
    /\ loader.pc = "idle" /\ loader.ret = "False"
    /\ csv_file.kind = "missing"
    /\ ~is_loaded /\ schedule = <<>>
    /\ gate_call.called

\* C17: a load_schedule on an existing source of which no row parses (or
\* which cannot be read) returns True and leaves the example schedule;
\* is_class_time on that schedule answers (true, one of its sessions) or
\* (false, None).
C17_NoRowsGivesExampleSchedule ==
    [][/\ (loader.pc = "rows" /\ loader'.pc = "idle"
           /\ ParseRows(loader.rows) = <<>>) =>
             /\ loader'.ret = "True"
             /\ is_loaded'
             /\ \E today \in Days : schedule' = ExampleSchedule(today)
       /\ (csv_file.kind = "unreadable" /\ schedule' # schedule) =>
             /\ is_loaded'
             /\ \E today \in Days : schedule' = ExampleSchedule(today)
       /\ (GateAsked /\ is_loaded
           /\ \E today \in Days : schedule = ExampleSchedule(today)) =>
             LET r == gate_call'.result
             IN  IF r.open THEN r.session \in Sessions(schedule)
                 ELSE r.session = NoSession]_vars

\* a file of rows none of which parses was loaded, and is_class_time then
\* answered from the example schedule
C17_Witness ==
    /\ loader.pc = "idle" /\ loader.ret = "True"
    /\ csv_file.kind = "text" /\ Len(csv_file.rows) > 0
    /\ ParseRows(SkipHeader(csv_file.rows)) = <<>>
    /\ schedule = ExampleSchedule(1)
    /\ gate_call.called /\ gate_call.loaded /\ ~gate_call.loading
    /\ gate_call.result.open
    /\ gate_call.result.session.subject = "Programmirovanie"

\* C18: an is_class_time call that runs while load_schedule reloads a
\* loaded gate reads the complete previous schedule or the complete new
\* one.
C18_ReloadIsAtomicForReaders ==
    [][(GateAsked /\ is_loaded /\ loader.pc = "rows") =>
         \/ schedule = loader.before
         \/ \E today \in Days :
              schedule = FinishLoad(ParseRows(loader.rows), TRUE,
                                    today).schedule]_vars

---------------------------------------------------------------------------
(* Claims about the scheduler and its passes (under SpecSched).            *)

\* C19: at most one check pass runs at a time: a firing while a pass is
\* running starts no pass, and a pass starts only when the one before,
\* its holders included, has finished.
C19_SingleInFlightPass ==
    [][/\ Len(passes') <= 1
       /\ (firings' # firings /\ passes # <<>>) => passes' = passes
       /\ Len(passes') > Len(passes) => passes = <<>>]_vars

\* a firing was skipped while the pass before it was past the gate
C19_Witness ==
    /\ sched_event = SchedEvent("fired", "skipped")
    /\ Len(passes) = 1
    /\ passes[1].pc \in {"users", "close"}
    /\ firings >= 2

\* C20: when is_class_time raises at the start of a pass, the pass takes
\* the gate as open and goes on to the holders.
C20_GateErrorKeepsPassGoing ==
    sched_event = SchedEvent("gate", "raises") =>
        \E i \in 1..Len(passes) : passes[i].pc = "users"

---------------------------------------------------------------------------
(* Claims about login() and the login gate (under Spec and SpecLesson).    *)

\* the step is a login() call
LoginCalled == last'.op = "login"

\* C26: login() without a username or a password returns False, sends no
\* request and leaves the flag as it was; a GET or POST that raises or is
\* answered by an HTTP error during login makes it return False.
C26_LoginFailsWithoutRaising ==
    /\ []((username = None \/ password = None) =>
            \A flag \in BOOLEAN, resp \in LoginResponses :
               login(flag, username, password, resp)
                   = LoginReturn(FALSE, flag, 0))
    /\ [](\A flag \in BOOLEAN :
          \A resp \in {"get_raises", "post_raises", "post_500"} :
            ~login(flag, username, password, resp).ret)
    /\ [][(LoginCalled /\ (username = None \/ password = None)) =>
            /\ last'.result.value = "False"
            /\ last'.login_requests = 0
            /\ is_logged_in' = is_logged_in]_vars

\* C27: a check_attendance or submit_attendance call on a client whose
\* flag is true calls login() not at all and sends no login request; they
\* do so only when the flag is false.
C27_NoLoginWhenLoggedIn ==
    /\ [](is_logged_in =>
            \A resp \in LoginResponses, u \in LessonUrls :
              /\ \A fetch \in {"raises", "404", "200"} :
                 \A scanned \in ScanResults :
                   LET c == check_attendance(is_logged_in, attendance_cache,
                                             username, password, u, now,
                                             resp, fetch, scanned)
                   IN  c.login_calls = 0 /\ c.login_requests = 0
              /\ \A ans \in LessonAnswers :
                   LET s == submit_attendance(is_logged_in, username,
                                              password, u, resp, ans)
                   IN  s.login_calls = 0 /\ s.login_requests = 0)
    /\ [][(last' # last /\ last'.op \in {"check_attendance",
                                          "submit_attendance"}) =>
            ((last'.login_calls > 0 \/ last'.login_requests > 0)
                => ~is_logged_in)]_vars

\* the second lesson check fetched the lesson page without a login() call:
\* the flag was true when it began
C27_Witness ==
    /\ checks = 2
    /\ is_logged_in
    /\ last.op = "check_attendance"
    /\ last.page_fetches = 1
    /\ last.login_calls = 0

\* C29: a check_attendance that returns an error leaves the cache as it
\* was; every cache entry holds an 'available' or 'not_available' result;
\* after an error the cache holds no fresh entry for that URL, so that the
\* next check_attendance for it fetches again.
C29_ErrorsAreNotCached ==
    /\ [](\A u \in DOMAIN attendance_cache :
            attendance_cache[u].status.status
                \in {"available", "not_available"})
    /\ [][(last' # last /\ last'.op = "check_attendance"
           /\ last'.result.status = "error") =>
            /\ attendance_cache' = attendance_cache
            /\ ~CacheFresh(attendance_cache', last'.url, now')]_vars

\* a check of a URL that has an expired entry failed at the GET of the
\* page, and the entry is still the old one
C29_Witness ==
    /\ last.op = "check_attendance"
    /\ last.result.status = "error"
    /\ last.page_fetches = 1
    /\ last.url \in DOMAIN attendance_cache
    /\ attendance_cache[last.url].last_checked < now

\* C30: after a login() call that returned False the flag is false, also
\* when an earlier login() had succeeded.
C30_FlagAgreesWithLastLogin ==
    [][(LoginCalled /\ last'.result.value = "False") =>
         ~is_logged_in']_vars

\* load_schedule and is_class_time on a gate that is not loaded, for every
\* timetable file: a boolean, and a boolean with a session of the schedule
\* or None
GateAnswersTyped ==
    \A file \in CsvFiles, today \in Days :
       /\ load_schedule(file, <<>>, FALSE, today).ret \in BOOLEAN
       /\ \A d \in QueryDays, t \in QueryTimes :
            LET a == is_class_time(file, <<>>, FALSE, today, d, t)
            IN  /\ a.result.open \in BOOLEAN
                /\ \/ a.result.session = NoSession
                   \/ a.result.session \in Sessions(a.schedule)

\* C23: check_attendance and submit_attendance answer every failure of the
\* portal with a result of their variants, and load_schedule and
\* is_class_time answer every timetable file, missing and unreadable ones
\* included, with their boolean and their (bool, session or None).
C23_NoExceptionEscapes ==
    /\ []((lesson_call.called /\ lesson_call.db = "ok") =>
            /\ lesson_call.check.status
                  \in {"available", "not_available", "error"}
            /\ lesson_call.marked_url # None =>
                  lesson_call.mark.status \in {"success", "error"})
    /\ []GateAnswersTyped

\* the GET of the lesson page raised and check_attendance answered with an
\* error result
C23_Witness ==
    /\ lesson_call.called
    /\ lesson_call.db = "ok"
    /\ lesson_call.check = ErrorResult("connection error")
    /\ last.page_fetches = 1

---------------------------------------------------------------------------
(* Claims about the lesson loop of a holder (under SpecLesson).            *)

\* the step is a check_lesson_attendance call
LessonCheckStep == checks' = checks + 1

---------------------------------------------------------------------------
(* Claims about what a pass does (under SpecSched).                        *)

\* pass i ends in this step
PassEnds(i) == i \in 1..Len(passes) /\ passes' = Without(passes, i)

\* C21: a pass whose gate is open hands every active lesson of every
\* active holder with credentials to check_attendance before it ends, and
\* every lesson it marks is one it checked; a pass whose gate is closed
\* calls neither.
C21_OpenGateChecksEveryLesson ==
    [][\A i \in 1..Len(passes) :
         PassEnds(i) =>
           /\ (passes[i].pc = "close"
               /\ passes[i].gate \in {"open", "open_no_session"}) =>
                 /\ ActiveLessons \subseteq passes[i].checked
                 /\ passes[i].marked \subseteq passes[i].checked
           /\ (passes[i].pc = "gate"
               /\ sched_event' = SchedEvent("gate", "closed")) =>
                 passes[i].checked = {} /\ passes[i].marked = {}]_vars

---------------------------------------------------------------------------
(* The working window (under SpecGate).                                    *)

\* date.weekday() of a day of September 2025: 0 is Monday
Weekday(d) == (d - 1) % 7

---------------------------------------------------------------------------
(* A pass whose gate has no schedule source (under SpecSched).             *)

\* C31: a pass whose gate answers (True, None), the schedule source being
\* missing, still hands every active lesson of every active holder with
\* credentials to check_attendance before it ends.
C31_MissingSourceKeepsPassGoing ==
    [][\A i \in 1..Len(passes) :
         (PassEnds(i) /\ passes[i].gate = "open_no_session") =>
            ActiveLessons \subseteq passes[i].checked]_vars

---------------------------------------------------------------------------
(* The times written to the lesson store (under SpecLesson).               *)

\* the submission of the lesson check of this step returned 'success'
MarkSucceeded == lesson_call'.mark.status = "success"

---------------------------------------------------------------------------
(* The passes of one holder (under SpecHolder).                            *)

\* The length of a class window in seconds: a session of the timetable
\* runs from 9:30 to 11:05.
ClassWindow == (time(11, 5) - time(9, 30)) * 60

---------------------------------------------------------------------------
(* The lessons chosen for a check (under SpecSelect).                      *)

\* the lessons of the list that match the subject, in their order
Matching(lessons, class_name) ==
    Filter(lessons, {lessons[i] : i \in {j \in 1..Len(lessons) :
                        is_matching(lessons[j], class_name)}})

\* C34: of the active lessons of a holder, the ones matching the subject
\* of the class in session are checked if there is one, else all of
\* them, in the order received.
C34_MatchingLessonsAreChecked ==
    selection.called =>
        LET matching == Matching(selection.lessons, selection.class_name)
        IN  selection.result.checked =
                IF matching # <<>> THEN matching ELSE selection.lessons

---------------------------------------------------------------------------
(* Loading the schedule again (under SpecReload).                          *)

\* load_schedule is called in this step, and has been called before
Reloaded == loader'.i = loader.i + 1 /\ loader.i >= 1

\* C36: loading the unchanged file again leaves the schedule that loading
\* it once into an empty gate gives, with either module's load_schedule.
C36_ReloadRebuildsTheSchedule ==
    [][Reloaded =>
         \E today \in Days :
            schedule' =
               LoadWith(parser, csv_file, <<>>, FALSE, today).schedule]_vars

\* the sessions of s are in ascending order of (date, start_time)
Ordered(s) == \A i \in 1..(Len(s) - 1) : KeyLeq(s[i], s[i + 1])

\* C37: after a load_schedule call that returned True the schedule is in
\* ascending order of (date, start_time), with sessions parsed from the
\* rows and with the example schedule.
C37_LoadedScheduleIsOrdered ==
    [][(loader'.i = loader.i + 1 /\ loader'.ret = "True") =>
          Ordered(schedule')]_vars

\* load_schedule of simple_schedule_parser.py has returned True on a file
\* whose rows give two sessions, the later one first
C37_Witness ==
    /\ parser = "simple_schedule_parser"
    /\ loader.i >= 1 /\ loader.ret = "True"
    /\ Len(schedule) = 2
    /\ ParseRows(SkipHeader(csv_file.rows)) = <<schedule[2], schedule[1]>>
    /\ schedule[1].date < schedule[2].date

---------------------------------------------------------------------------
(* The lessons a pass may touch (under SpecSched).                         *)

\* C38: the lessons a pass hands to check_attendance or to mark_attendance
\* are active lessons of active holders with a username and a password.
C38_OnlyActiveLessonsAreCalled ==
    \A i \in 1..Len(passes) :
       (passes[i].checked \cup passes[i].marked) \subseteq ActiveLessons

\* a pass whose gate was open is past its holders, with an inactive
\* lesson, an inactive holder and a holder without credentials in the
\* database
C38_Witness ==
    /\ \E i \in 1..Len(passes) :
          passes[i].pc = "close" /\ passes[i].gate = "open"
    /\ \E h \in Holders : h.active /\ \E l \in h.lessons : ~l.active
    /\ \E h \in Holders : ~h.active
    /\ \E h \in Holders : h.moodle_username = None

====
